---- MODULE Spec2Model ----
\* A model of the requestrepo backend: the tiered in-memory cache
\* (cache/mod.rs), the capture paths that push observations into it
\* (http/routes.rs, dns/mod.rs, smtp/mod.rs, tcp/mod.rs), the request
\* endpoints of the v2 API (http/routes_v2.rs), the JWT helpers
\* (utils/mod.rs) and the WebSocket multiplexer (http/websocket.rs).
EXTENDS Integers, Sequences, FiniteSets, TLC

\* ---------------------------------------------------------------- bounds

\* CONFIG.max_requests_per_session: per-tenant cap on list entries.
max_requests_per_session == 3

\* CONFIG.max_subdomain_size_bytes: per-tenant quota on uncompressed KV bytes.
max_subdomain_size_bytes == 5

\* Cache::max_memory, the value get_memory_limit() returned at start-up.
max_memory == 200

\* Number of observations (request ids) the listeners capture in a run.
MaxCaptures == 4

\* Number of capture handlers that may be between their steps at once.
MaxInflight == 2

\* Number of Cache::set calls that may be between their quota check and
\* their write at once.
MaxSetCalls == 2

\* Capacity of the broadcast channel (broadcast::channel(n) in run()).
channel_capacity == 2

\* Number of connect commands a WebSocket client sends.
MaxConnects == 1

\* update_dns handlers in flight at once.
MaxDnsCalls == 1

\* CONFIG.tcp_port_range_end: the last port allocate_port may hand out.
tcp_port_range_end == 10001

\* Number of reload_domain / reload_ip calls in a run.
MaxReloads == 4

\* Number of attempts obtain_domain_certificate / obtain_ip_certificate make.
max_attempts == 3

\* Number of certificate orders the ACME client places in a run.
MaxOrders == 3

\* Recipients one SMTP session accepts before the client is held back.
MaxRcpt == 2

\* smtp::MAX_MESSAGE_SIZE, in lines of a message.
MAX_MESSAGE_SIZE == 2

\* CONFIG.session_rate_limit and CONFIG.session_rate_window_secs.
session_rate_limit == 2
session_rate_window_secs == 2

\* The last second of the clock, the number of session-creation requests in
\* a run and of check_rate_limit calls in flight at once.
MaxTime == 4
MaxRateRequests == 5
MaxRateCalls == 2

\* ------------------------------------------------------------- constants

\* How many messages reach the port broker in a run, and how many wait.
MaxBrokerMessages == 5
MaxBrokerInbox == 2

\* How many connections or requests the listeners accept in a run.
MaxUnits == 3

\* The most labels of a host name handed to get_subdomain_from_hostname.
MaxHostLabels == 4

\* How many observations are captured before the listings of SpecList.
MaxListed == 3

\* usize arithmetic wraps modulo 2^w; the model keeps a 30-bit word so that
\* every sum stays inside TLC's integers. Lists are far shorter than 2^30,
\* as they are far shorter than 2^64 in the program.
UsizeModulus == 1073741824

\* CONFIG.cache_max_memory_pct = 0.7, as the fraction PctNum / PctDen.
PctNum == 7
PctDen == 10

Tenants == {"s1", "s2"}

\* CONFIG.tcp_port_range_start: the first port allocate_port may hand out.
tcp_port_range_start == 10000

\* Option::None for a subdomain.
NoSubdomain == "<none>"

\* ------------------------------------------------------------ arithmetic

Min(a, b) == IF a < b THEN a ELSE b
Max(a, b) == IF a > b THEN a ELSE b

\* usize::saturating_sub
saturating_sub(a, b) == IF a >= b THEN a - b ELSE 0

\* usize::saturating_add
saturating_add(a, b) == Min(a + b, UsizeModulus - 1)

\* AtomicUsize::fetch_add / fetch_sub wrap around on overflow.
wrapping_add(a, b) == (a + b) % UsizeModulus
wrapping_sub(a, b) == (a - b) % UsizeModulus

\* `x as usize` for an isize x: two's complement reinterpretation.
as_usize(x) == x % UsizeModulus

\* ------------------------------------------------------------------ keys
\* A cache key is the sequence of its ':'-separated parts, and each part the
\* sequence of its '.'-separated labels: "dns:A:test.s1.example.com." is
\* << <<"dns">>, <<"A">>, <<"test","s1","example","com","">> >>.

FilesKey(s) == << <<"files">>, <<s>> >>
DnsKey(s) == << <<"dns">>, <<s>> >>
DnsRecordKey(t, fqdn) == << <<"dns">>, <<t>>, fqdn >>
IndexKey(s, id) == << <<"request">>, <<s>>, <<id>> >>
ListKey(s) == << <<"requests">>, <<s>> >>

\* The tenant a key is charged to, or NoSubdomain.
extract_subdomain_from_key(key) ==
    IF key[1] \in { <<"files">>, <<"file">> } /\ Len(key) >= 2
    THEN key[2][1]
    ELSE IF key[1] = <<"dns">> /\ Len(key) >= 2
    THEN IF Len(key) = 2
         THEN key[2][1]
         ELSE IF Len(key[3]) >= 2 THEN key[3][2] ELSE NoSubdomain
    ELSE NoSubdomain

\* ---------------------------------------------------------------- values
\* A KV value is a string, modelled as the sequence of its characters.

\* GzEncoder: a lossless run-length code stands for DEFLATE; the stored data
\* is the sequence of <<character, run length>> pairs.
RECURSIVE GzEncode(_)
GzEncode(value) ==
    IF value = <<>> THEN <<>>
    ELSE LET rest == GzEncode(Tail(value))
         IN IF rest # <<>> /\ rest[1][1] = Head(value)
            THEN << <<Head(value), rest[1][2] + 1>> >> \o Tail(rest)
            ELSE << <<Head(value), 1>> >> \o rest

\* A decoder that forgets the run lengths: every run comes back as one
\* character.
RECURSIVE GzDecode_single(_)
GzDecode_single(data) ==
    IF data = <<>> THEN <<>>
    ELSE <<data[1][1]>> \o GzDecode_single(Tail(data))

\* GzDecoder::read_to_string
RECURSIVE GzDecode(_)
GzDecode(data) ==
    IF data = <<>> THEN <<>>
    ELSE [i \in 1..data[1][2] |-> data[1][1]] \o GzDecode(Tail(data))

\* compressed_data.len(): the gzip header and trailer take 18 bytes, each
\* run two.
DataLen(data) == 18 + 2 * Len(data)

KvEntry(value) == [data |-> GzEncode(value), uncompressed_size |-> Len(value)]

\* usize::to_string, for the index written under request:<sub>:<id>.
Digits == <<"0", "1", "2", "3", "4", "5", "6", "7", "8", "9">>
RECURSIVE to_string(_)
to_string(n) ==
    IF n < 10 THEN <<Digits[n + 1]>>
    ELSE to_string(n \div 10) \o <<Digits[(n % 10) + 1]>>

DigitValue(ch) == CHOOSE d \in 0..9 : Digits[d + 1] = ch

\* str::parse::<isize>().unwrap_or(-1) on a stored index.
RECURSIVE parse_isize(_)
parse_isize(str) ==
    IF str = <<>> \/ \E i \in 1..Len(str) : \A d \in 1..10 : Digits[d] # str[i]
    THEN -1
    ELSE IF Len(str) = 1 THEN DigitValue(str[1])
    ELSE 10 * parse_isize(SubSeq(str, 1, Len(str) - 1)) + DigitValue(str[Len(str)])

\* ---------------------------------------------------------- observations
\* A serialized observation is the pair of its _id and its length in bytes.

RequestIds == <<"r1", "r2", "r3", "r4", "r5", "r6">>

\* Lengths of the serialized observations the listeners produce.
PayloadSizes == {20, 30}

\* The tombstone "{}" left by a single-request deletion: two bytes, no _id.
Tombstone == [id |-> "", len |-> 2]

\* ------------------------------------------------------------- the cache
\* A cache value c is the record of Cache's fields:
\*   kv_store        : key -> KvEntry, defined on the keys present
\*   request_store   : the LinkedHashMap as the sequence of its entries
\*                     [key, items, total_size] in iteration order
\*   request_index   : the set of keys of Cache::request_index
\*   subdomain_sizes : subdomain -> bytes, defined on the subdomains present
\*   current_memory  : the AtomicUsize

EmptyCache ==
    [kv_store |-> <<>>, request_store |-> <<>>, request_index |-> {},
     subdomain_sizes |-> <<>>, current_memory |-> 0]

\* HashMap::insert / HashMap::remove on a function with a finite domain.
MapInsert(m, k, v) == [x \in DOMAIN m \cup {k} |-> IF x = k THEN v ELSE m[x]]
MapRemove(m, k) == [x \in DOMAIN m \ {k} |-> m[x]]

\* Position of `key` in the request store, 0 when absent.
StoreIndex(store, key) ==
    IF \E i \in 1..Len(store) : store[i].key = key
    THEN CHOOSE i \in 1..Len(store) : store[i].key = key
    ELSE 0

\* LinkedHashMap::remove: the other entries keep their order.
StoreRemove(store, key) ==
    LET i == StoreIndex(store, key)
    IN IF i = 0 THEN store
       ELSE SubSeq(store, 1, i - 1) \o SubSeq(store, i + 1, Len(store))

get_subdomain_size(c, subdomain) ==
    IF subdomain \in DOMAIN c.subdomain_sizes
    THEN c.subdomain_sizes[subdomain] ELSE 0

update_subdomain_size(sizes, subdomain, delta) ==
    LET entry == IF subdomain \in DOMAIN sizes THEN sizes[subdomain] ELSE 0
    IN MapInsert(sizes, subdomain,
                 IF delta >= 0 THEN saturating_add(entry, delta)
                 ELSE saturating_sub(entry, -delta))

\* A pass that stays on the list it popped from until enough is freed,
\* instead of moving on to the next tenant.
RECURSIVE EvictPass_same_list(_, _, _, _)
EvictPass_same_list(st, keys, i, bytes_to_free) ==
    IF i > Len(keys) \/ st.freed >= bytes_to_free THEN st
    ELSE LET idx == StoreIndex(st.store, keys[i])
             entry == st.store[idx]
         IN IF idx # 0 /\ entry.items # <<>>
            THEN LET request_size == Head(entry.items).len
                     popped == [entry EXCEPT
                                  !.items = Tail(@),
                                  !.total_size = saturating_sub(@, request_size)]
                 IN EvictPass_same_list(
                      [store |-> [st.store EXCEPT ![idx] = popped],
                       freed |-> st.freed + request_size,
                       evicted_count |-> st.evicted_count + 1,
                       empty_lists |-> IF popped.items = <<>>
                                       THEN Append(st.empty_lists, keys[i])
                                       ELSE st.empty_lists,
                       made_progress |-> TRUE],
                      keys, i, bytes_to_free)
            ELSE EvictPass_same_list(st, keys, i + 1, bytes_to_free)

\* One `for key in &keys` pass of evict_oldest_requests, from position i on.
\* st = [store, freed, evicted_count, empty_lists, made_progress].
RECURSIVE EvictPass(_, _, _, _)
EvictPass(st, keys, i, bytes_to_free) ==
    IF i > Len(keys) \/ st.freed >= bytes_to_free THEN st
    ELSE LET idx == StoreIndex(st.store, keys[i])
             entry == st.store[idx]
         IN IF idx # 0 /\ entry.items # <<>>
            THEN LET request_size == Head(entry.items).len
                     popped == [entry EXCEPT
                                  !.items = Tail(@),
                                  !.total_size = saturating_sub(@, request_size)]
                 IN EvictPass(
                      [store |-> [st.store EXCEPT ![idx] = popped],
                       freed |-> st.freed + request_size,
                       evicted_count |-> st.evicted_count + 1,
                       empty_lists |-> IF popped.items = <<>>
                                       THEN Append(st.empty_lists, keys[i])
                                       ELSE st.empty_lists,
                       made_progress |-> TRUE],
                      keys, i + 1, bytes_to_free)
            ELSE EvictPass(st, keys, i + 1, bytes_to_free)

\* The `while freed < bytes_to_free` loop of evict_oldest_requests.
RECURSIVE EvictLoop(_, _)
EvictLoop(st, bytes_to_free) ==
    IF st.freed >= bytes_to_free THEN st
    ELSE LET keys == [i \in 1..Len(st.store) |-> st.store[i].key]
             st1 == EvictPass([st EXCEPT !.made_progress = FALSE],
                              keys, 1, bytes_to_free)
         IN IF ~st1.made_progress THEN st1 ELSE EvictLoop(st1, bytes_to_free)

\* `for key in &empty_lists { store.remove(key) }`
RECURSIVE RemoveLists(_, _)
RemoveLists(store, empty_lists) ==
    IF empty_lists = <<>> THEN store
    ELSE RemoveLists(StoreRemove(store, Head(empty_lists)), Tail(empty_lists))

\* A finish that also purges the index keys of the observations it popped.
evict_finish_purging_index(c, st) ==
    LET store == RemoveLists(st.store, st.empty_lists)
        listed(k) == \E i \in 1..Len(store) :
                        /\ store[i].key = << <<"requests">>, k[2] >>
                        /\ \E j \in 1..Len(store[i].items) :
                              <<store[i].items[j].id>> = k[3]
        kept == {k \in DOMAIN c.kv_store : k[1] = <<"request">> => listed(k)}
    IN [c EXCEPT
          !.kv_store = [k \in kept |-> c.kv_store[k]],
          !.request_store = store,
          !.current_memory = IF st.evicted_count > 0
                             THEN wrapping_sub(@, st.freed) ELSE @]

\* The end of evict_oldest_requests: the emptied lists are removed and the
\* freed bytes leave the memory counter.
evict_finish(c, st) ==
    [c EXCEPT
       !.request_store = RemoveLists(st.store, st.empty_lists),
       !.current_memory = IF st.evicted_count > 0
                          THEN wrapping_sub(@, st.freed) ELSE @]

evict_oldest_requests(c, bytes_to_free) ==
    evict_finish(c, EvictLoop([store |-> c.request_store, freed |-> 0,
                               evicted_count |-> 0, empty_lists |-> <<>>,
                               made_progress |-> FALSE], bytes_to_free))

\* (max as f64 * CONFIG.cache_max_memory_pct) as usize
EvictionThreshold == (max_memory * PctNum) \div PctDen

\* A sweep that frees down to the threshold only, without the extra tenth.
maybe_evict_requests_to_threshold(c) ==
    IF c.current_memory > EvictionThreshold
    THEN evict_oldest_requests(c, c.current_memory - EvictionThreshold)
    ELSE c

maybe_evict_requests(c) ==
    IF c.current_memory > EvictionThreshold
    THEN evict_oldest_requests(
           c, (c.current_memory - EvictionThreshold) + (max_memory \div 10))
    ELSE c

\* The list under `key`, created empty when absent (store.contains_key /
\* store.insert at the head of rpush).
rpush_store(store, key) ==
    IF StoreIndex(store, key) = 0
    THEN Append(store, [key |-> key, items |-> <<>>, total_size |-> 0])
    ELSE store

\* A push that drops the newest entry, not the oldest, when the list is full.
rpush_list_pop_back(entry, value) ==
    IF Len(entry.items) >= max_requests_per_session
    THEN [entry |-> entry, evicted |-> value.len]
    ELSE [entry |-> [entry EXCEPT !.items = Append(@, value),
                                  !.total_size = @ + value.len],
          evicted |-> 0]

\* push_back, then pop_front when the list is over max_requests_per_session:
\* [entry |-> the list afterwards, evicted |-> bytes popped].
rpush_list(entry, value) ==
    LET pushed == [entry EXCEPT !.items = Append(@, value),
                                !.total_size = @ + value.len]
    IN IF Len(pushed.items) > max_requests_per_session
       THEN [entry |-> [pushed EXCEPT
                          !.items = Tail(@),
                          !.total_size =
                              saturating_sub(@, Head(pushed.items).len)],
             evicted |-> Head(pushed.items).len]
       ELSE [entry |-> pushed, evicted |-> 0]

\* Cache::rpush after its maybe_evict_requests call.
rpush_locked(c, key, value) ==
    LET store1 == rpush_store(c.request_store, key)
        r == rpush_list(store1[StoreIndex(store1, key)], value)
        mem1 == wrapping_add(c.current_memory, value.len)
    IN [cache |-> [c EXCEPT
                     \* get_refresh moves the entry to the back
                     !.request_store = Append(StoreRemove(store1, key), r.entry),
                     !.current_memory = IF r.evicted > 0
                                        THEN wrapping_sub(mem1, r.evicted)
                                        ELSE mem1],
        ret |-> Len(r.entry.items)]

\* Cache::rpush: [cache |-> the cache afterwards, ret |-> Ok(len)].
rpush(c, key, value) == rpush_locked(maybe_evict_requests(c), key, value)

\* Cache::lrange
lrange(c, key, start, stop) ==
    LET idx == StoreIndex(c.request_store, key)
    IN IF idx = 0 THEN <<>>
       ELSE LET items == c.request_store[idx].items
                len == Len(items)
                start1 == IF start < 0 THEN Max(len + start, 0) ELSE start
                stop1 == IF stop < 0 THEN len + stop ELSE stop
                start2 == as_usize(start1)
                stop2 == Min(as_usize(stop1), saturating_sub(len, 1))
            IN IF start2 <= stop2 /\ start2 < len
               THEN SubSeq(items, start2 + 1, stop2 + 1)
               ELSE <<>>

\* Cache::llen
llen(c, key) ==
    LET idx == StoreIndex(c.request_store, key)
    IN IF idx = 0 THEN 0 ELSE Len(c.request_store[idx].items)

\* An lset that swaps the entry and leaves both size counters as they were.
lset_keeping_sizes(c, key, index, value) ==
    LET idx == StoreIndex(c.request_store, key)
        len == IF idx = 0 THEN 0 ELSE Len(c.request_store[idx].items)
        index1 == IF index < 0 THEN len + index ELSE index
    IN IF idx # 0 /\ index1 >= 0 /\ index1 < len
       THEN [cache |-> [c EXCEPT
                          !.request_store[idx].items[index1 + 1] = value],
             ok |-> TRUE]
       ELSE [cache |-> c, ok |-> FALSE]

\* Cache::lset: [cache, ok]; ok = FALSE is Err("List or index not found").
lset(c, key, index, value) ==
    LET idx == StoreIndex(c.request_store, key)
        len == IF idx = 0 THEN 0 ELSE Len(c.request_store[idx].items)
        index1 == IF index < 0 THEN len + index ELSE index
    IN IF idx # 0 /\ index1 >= 0 /\ index1 < len
       THEN LET entry == c.request_store[idx]
                old_size == entry.items[index1 + 1].len
                new_size == value.len
            IN [cache |-> [c EXCEPT
                  !.request_store[idx] =
                      [entry EXCEPT !.items[index1 + 1] = value,
                                    !.total_size = (@ - old_size) + new_size],
                  !.current_memory =
                      wrapping_add(wrapping_sub(@, old_size), new_size)],
                ok |-> TRUE]
       ELSE [cache |-> c, ok |-> FALSE]

\* The quota check at the head of Cache::set: TRUE when the call goes on.
set_check(c, key, value) ==
    LET subdomain == extract_subdomain_from_key(key)
    IN subdomain = NoSubdomain
       \/ get_subdomain_size(c, subdomain) + Len(value)
            <= max_subdomain_size_bytes

\* The rest of Cache::set, under the kv_store write lock.
\* A write that adds the new size without taking off the old entry's.
set_write_keeping_old(c, key, value) ==
    LET subdomain == extract_subdomain_from_key(key)
        new == KvEntry(value)
        mem0 == IF key \in DOMAIN c.kv_store
                THEN wrapping_sub(c.current_memory,
                                  DataLen(c.kv_store[key].data))
                ELSE c.current_memory
    IN [c EXCEPT
          !.kv_store = MapInsert(@, key, new),
          !.current_memory = wrapping_add(mem0, DataLen(new.data)),
          !.subdomain_sizes =
              IF subdomain # NoSubdomain
              THEN update_subdomain_size(@, subdomain, new.uncompressed_size)
              ELSE @]

set_write(c, key, value) ==
    LET subdomain == extract_subdomain_from_key(key)
        new == KvEntry(value)
        exists == key \in DOMAIN c.kv_store
        mem0 == IF exists
                THEN wrapping_sub(c.current_memory,
                                  DataLen(c.kv_store[key].data))
                ELSE c.current_memory
        sizes0 == IF exists /\ subdomain # NoSubdomain
                  THEN update_subdomain_size(
                         c.subdomain_sizes, subdomain,
                         -(c.kv_store[key].uncompressed_size))
                  ELSE c.subdomain_sizes
    IN [c EXCEPT
          !.kv_store = MapInsert(@, key, new),
          !.current_memory = wrapping_add(mem0, DataLen(new.data)),
          !.subdomain_sizes =
              IF subdomain # NoSubdomain
              THEN update_subdomain_size(sizes0, subdomain,
                                         new.uncompressed_size)
              ELSE sizes0]

\* Cache::get: <<value>> for Some(value), <<>> for None.
get(c, key) ==
    IF key \in DOMAIN c.kv_store
    THEN <<GzDecode(c.kv_store[key].data)>>
    ELSE <<>>

\* Cache::delete: [cache, ret]; ret is the Ok(bool) returned.
delete(c, key) ==
    IF key \in DOMAIN c.kv_store
    THEN LET entry == c.kv_store[key]
             subdomain == extract_subdomain_from_key(key)
         IN [cache |-> [c EXCEPT
               !.kv_store = MapRemove(@, key),
               !.current_memory = wrapping_sub(@, DataLen(entry.data)),
               !.subdomain_sizes =
                   IF subdomain # NoSubdomain
                   THEN update_subdomain_size(@, subdomain,
                                              -(entry.uncompressed_size))
                   ELSE @],
              ret |-> TRUE]
    ELSE IF StoreIndex(c.request_store, key) # 0
    THEN LET entry == c.request_store[StoreIndex(c.request_store, key)]
         IN [cache |-> [c EXCEPT
               !.request_store = StoreRemove(@, key),
               !.current_memory = wrapping_sub(@, entry.total_size)],
              ret |-> TRUE]
    ELSE [cache |-> [c EXCEPT !.request_index = @ \ {key}],
          ret |-> key \in c.request_index]

\* ---------------------------------------------------------------- tokens
\* A JWT is the record of what decode() looks at: whether the signature is
\* the server's, whether exp has passed, which claims the payload carries,
\* and the values of the subdomain and request_id claims.

generate_jwt(subdomain) ==
    [signed |-> TRUE, expired |-> FALSE,
     claims |-> {"iat", "exp", "subdomain"},
     subdomain |-> subdomain, request_id |-> ""]

generate_share_jwt(request_id, subdomain) ==
    [signed |-> TRUE, expired |-> FALSE,
     claims |-> {"iat", "exp", "request_id", "subdomain"},
     subdomain |-> subdomain, request_id |-> request_id]

\* The length and alphabet test: the tenants are the well-formed names.
verify_subdomain(subdomain) == subdomain \in Tenants

\* jsonwebtoken::decode::<T> with Validation::default(): the signature and
\* exp are checked, then the payload is deserialized into T, which needs
\* every field of T and ignores any other claim.
decode(token, fields) ==
    token.signed /\ ~token.expired /\ fields \subseteq token.claims

\* verify_jwt: the subdomain, or NoSubdomain for None.
verify_jwt(token) ==
    IF decode(token, {"iat", "exp", "subdomain"})
       /\ verify_subdomain(token.subdomain)
    THEN token.subdomain
    ELSE NoSubdomain

\* verify_share_jwt: TRUE for Some(claims).
verify_share_jwt(token) ==
    decode(token, {"iat", "exp", "request_id", "subdomain"})

\* verify_token_or_error: the subdomain, or NoSubdomain for the 401.
verify_token_or_error(token) == verify_jwt(token)

\* ----------------------------------------------------------------- state

VARIABLES
    cache,         \* the shared Cache (Arc<Cache>)
    next_id,       \* how many request ids generate_request_id() handed out
    captures,      \* capture handlers between their steps
    set_calls,     \* Cache::set calls between the quota check and the write
    last_set,      \* the latest Cache::set call and how it ended
    last_sweep,    \* the cache before and after the latest eviction sweep
    hist,          \* per tenant: the pushes since its list was last created
    written,       \* per KV key: the value of the latest successful set
    share_tokens,  \* the share tokens share_request has issued
    ws,            \* one WebSocket connection (handle_socket_v2)
    dns_calls,     \* update_dns handlers between their awaits
    dns_done,      \* per tenant: the record set of its latest finished PUT
    last_reply,    \* the latest reply of a file or DNS write route
    tcp,           \* the TCP port allocation service (tcp::Server)
    tls,           \* the hot-reloadable TLS configuration (TlsManager)
    acme,          \* the ACME client inside process_all_authorizations
    renewal,       \* the renewal tasks of CertManager and its storage
    smtp,          \* one SMTP connection (handle_smtp_connection)
    dns,           \* the latest query the DNS handler answered
    limiter,       \* the session-creation rate limiter and its clock
    resolution,    \* the latest resolve_file_path call and what it found
    listing,       \* the latest GET /api/v2/requests call and its reply
    derivation,    \* the latest get_subdomain_from_hostname call and its result
    supervisor,    \* run(): the listeners it spawned and their units of work
    evictors,      \* maybe_evict_requests calls between their lock sections
    broker         \* the port broker's control loop and its listeners

\* The state of the planes beside the cache and the socket.
\* The state of the services beside the HTTP server.
service_vars == <<tcp, tls, acme, renewal, smtp, dns, limiter, resolution,
      listing, derivation, supervisor, evictors, broker>>

\* For each service, the services beside it.
tcp_peers == <<tls, acme, renewal, smtp, dns, limiter, resolution, listing,
      derivation, supervisor, evictors, broker>>
tls_peers == <<tcp, acme, renewal, smtp, dns, limiter, resolution, listing,
      derivation, supervisor, evictors, broker>>
acme_peers == <<tcp, tls, renewal, smtp, dns, limiter, resolution, listing,
      derivation, supervisor, evictors, broker>>

plane_vars == <<dns_calls, dns_done, last_reply, service_vars>>

vars == <<cache, next_id, captures, set_calls, last_set, last_sweep, hist,
          written, share_tokens, ws, plane_vars>>

\* Kinds of listener: catch_all, log_dns_request, log_smtp_request,
\* handle_tcp_connection.
CaptureKinds == {"http", "dns", "smtp", "tcp"}

\* The serialized default file tree of serve_file / write_basic_file: a
\* tree is the sequence of its paths, "i" standing for index.html.
DefaultTree == <<"i">>

\* Values written under the tenant-owned keys.
KvValues == { <<"i", "a">>, <<"i", "b">>, <<"i", "a", "a", "b">> }

\* Names the DNS overrides of the model are written for.
Fqdns == { <<"test", "s1", "example", "com", "">> }

TenantKeys ==
    {FilesKey(s) : s \in {"s1", "s2"}} \cup {DnsKey(s) : s \in {"s1"}}
      \cup {DnsRecordKey("A", d) : d \in Fqdns}

NoSet == [key |-> <<>>, value |-> <<>>, ok |-> TRUE, usage |-> 0, old |-> 0]

FreshHist == [pushed |-> <<>>, rets |-> <<>>, clean |-> TRUE]

NoSweep == [ran |-> FALSE, before |-> EmptyCache, after |-> EmptyCache]

NoReply == [route |-> "", status |-> 0, refused |-> FALSE]

WsClosed ==
    [open |-> FALSE, alive |-> FALSE, rx |-> <<>>, lagged |-> FALSE,
     sessions |-> {}, pc |-> "idle", sub |-> NoSubdomain, connects |-> 0,
     snapshot |-> {}, live |-> {}, out |-> <<>>, tokens |-> {}, left |-> {},
     stray |-> {}]

\* The callers of allocate_port and release_port.
TcpThreads == {1, 2}

\* The lock nobody holds.
Unlocked == 0

\* allocate_port's Err(anyhow!("No available ports")).
NoPort == 0

TcpIdle == [op |-> "idle", at |-> "", subdomain |-> "", port |-> NoPort]

NoAlloc ==
    [called |-> FALSE, subdomain |-> "", port |-> NoPort,
     before |-> [port_allocations |-> <<>>, allocated_ports |-> <<>>],
     after |-> [port_allocations |-> <<>>, allocated_ports |-> <<>>]]

NoRelease == [called |-> FALSE, subdomain |-> "", port |-> NoPort]

\* Option::None of a certificate slot, and of the config.
NoCert == <<>>
NoConfig == 0

TlsSnapshot(config, domain_cert, ip_cert) ==
    [config |-> config, domain_cert |-> domain_cert, ip_cert |-> ip_cert]

NoReload ==
    [called |-> FALSE, slot |-> "", phase |-> "", ok |-> FALSE,
     chain_pem |-> <<>>, key_pem |-> <<>>,
     before |-> TlsSnapshot(NoConfig, NoCert, NoCert),
     after |-> TlsSnapshot(NoConfig, NoCert, NoCert)]

\* TlsManager::new: no config and no certificate in either slot.
TlsNew ==
    [config |-> NoConfig, domain_cert |-> NoCert, ip_cert |-> NoCert,
     built |-> 0, reloads |-> 0, pending |-> {}, succeeded |-> FALSE,
     last_reload |-> NoReload]

\* The two renewal tasks start_renewal_task spawns.
RenewalTasks == {"domain", "ip"}

NoCheck ==
    [called |-> FALSE, task |-> "", ok |-> FALSE, attempt |-> 0,
     before |-> NoCert, after |-> NoCert]

\* The tasks asleep before their first check; nothing in storage.
RenewalNew ==
    [task |-> [t \in RenewalTasks |->
                  [pc |-> "sleep", attempt |-> 0, slot_before |-> NoCert]],
     stored |-> [t \in RenewalTasks |-> NoCert],
     last_check |-> NoCheck]

\* Option::None for mail_from.
NoAddress == [ats |-> 0, host |-> <<"<none>">>]

NoLine ==
    [called |-> FALSE, line |-> "", data_mode |-> FALSE, subdomain |-> NoSubdomain,
     mail_from |-> NoAddress, rcpt_to |-> <<>>, email_data |-> <<>>,
     recorded |-> 0, uid |-> NoSubdomain, reply |-> 0]

\* handle_connection before the connection is accepted; `fresh` tells that
\* no MAIL FROM and no RCPT TO was accepted since the session began, was
\* reset, or finished a message.
SmtpNew ==
    [open |-> FALSE, data_mode |-> FALSE, email_data |-> <<>>,
     mail_from |-> NoAddress, rcpt_to |-> <<>>, subdomain |-> NoSubdomain,
     mail_since |-> FALSE, rcpt_since |-> FALSE, last |-> NoLine]

\* The addresses session-creation requests come from.
ClientIps == {"10.0.0.1", "10.0.0.2"}

\* The clock at 0, no request issued yet.
LimiterNew ==
    [now |-> 0, calls |-> {}, issued |-> 0,
     passed |-> [ip \in ClientIps |-> <<>>],
     rejected |-> [ip \in ClientIps |-> <<>>]]

\* Option::None for an entry of a file tree.
NoFile == <<"<none>">>

NoResolution == [called |-> FALSE, files |-> {}, path |-> <<>>, found |-> NoFile]

\* No DNS query answered yet.
NoQuery ==
    [called |-> FALSE, name |-> <<>>, query_type |-> "", rcode |-> "",
     answers |-> <<>>, uid |-> NoSubdomain, pushed |-> FALSE,
     indexed |-> FALSE, sent |-> FALSE]

\* An absent query parameter is <<>>, a present one <<n>>.
NoListing ==
    [called |-> FALSE, token |-> [signed |-> FALSE], limit |-> <<>>,
     offset |-> <<>>, items |-> <<>>, reply |-> [status |-> 0]]

NoDerivation == [called |-> FALSE, host |-> <<>>, subdomain |-> NoSubdomain]

\* The server tasks run() spawns and joins.
Listeners == {"dns", "http", "smtp", "tcp"}

\* run() past its spawns: every server task is about to bind, the shutdown
\* channel exists and nothing has been accepted.
SupervisorNew ==
    [pc |-> "serving", signalled |-> FALSE,
     listeners |-> [l \in Listeners |-> "starting"],
     units |-> <<>>, delivered |-> {}]

\* The callers of maybe_evict_requests: the cleanup task and an rpush.
Evictors == {"cleanup", "rpush"}

EvictorIdle == [pc |-> "idle", bytes_to_free |-> 0, freed |-> 0,
                evicted_count |-> 0]

EvictorsIdle == [e \in Evictors |-> EvictorIdle]

\* The port broker as tcp::Server::run starts it: the loop of
\* start_port_allocation_service receiving, no port bound.
BrokerNew ==
    [running |-> TRUE, inbox |-> <<>>, listeners |-> {}, sent |-> 0,
     outcome |-> "", rebound |-> FALSE]

\* The ACME client before its first order: nothing to do, no TXT value set.
AcmeIdle ==
    [pc |-> "idle", orders |-> 0, work |-> <<>>, pending |-> <<>>,
     challenge_domains |-> <<>>, txt_set |-> <<>>, result |-> "",
     notify |-> <<>>, ready |-> {}, confirmed |-> {}]

\* tcp::Server::new: both maps empty, both locks free.
TcpNew ==
    [port_allocations |-> <<>>, allocated_ports |-> <<>>,
     allocations_lock |-> Unlocked, allocated_lock |-> Unlocked,
     pc |-> [th \in TcpThreads |-> TcpIdle],
     last_alloc |-> NoAlloc, last_release |-> NoRelease]

Init ==
    /\ cache = EmptyCache
    /\ next_id = 0
    /\ captures = {}
    /\ set_calls = {}
    /\ last_set = NoSet
    /\ last_sweep = NoSweep
    /\ hist = [t \in Tenants |-> FreshHist]
    /\ written = <<>>
    /\ share_tokens = {}
    /\ ws = WsClosed
    /\ dns_calls = {}
    /\ dns_done = <<>>
    /\ last_reply = NoReply
    /\ tcp = TcpNew
    /\ tls = TlsNew
    /\ acme = AcmeIdle
    /\ renewal = RenewalNew
    /\ smtp = SmtpNew
    /\ dns = NoQuery
    /\ limiter = LimiterNew
    /\ resolution = NoResolution
    /\ listing = NoListing
    /\ derivation = NoDerivation
    /\ supervisor = SupervisorNew
    /\ evictors = EvictorsIdle
    /\ broker = BrokerNew

\* The items of a tenant's list, <<>> when it has none.
Items(c, s) ==
    LET idx == StoreIndex(c.request_store, ListKey(s))
    IN IF idx = 0 THEN <<>> ELSE c.request_store[idx].items

\* What an eviction sweep from `before` to `after` does to the record of a
\* tenant's pushes: a list it emptied and removed starts afresh, a list it
\* shortened is no longer the outcome of pushes alone.
HistAfterSweep(h, before, after) ==
    [t \in Tenants |->
        IF Items(before, t) = Items(after, t) THEN h[t]
        ELSE IF StoreIndex(after.request_store, ListKey(t)) = 0 THEN FreshHist
        ELSE [h[t] EXCEPT !.clean = FALSE]]

SweepRecord(prev, before, after) ==
    IF before.current_memory > EvictionThreshold
    THEN [ran |-> TRUE, before |-> before, after |-> after]
    ELSE prev

\* Cache::set as one step: [cache, ok]; ok = FALSE is the quota error.
set(c, key, value) ==
    IF set_check(c, key, value)
    THEN [cache |-> set_write(c, key, value), ok |-> TRUE]
    ELSE [cache |-> c, ok |-> FALSE]

\* ------------------------------------------------------------------- bus
\* tx.send(message): the message is queued for the socket's receiver; a
\* receiver that is channel_capacity messages behind loses the oldest one
\* and its next recv() returns Err(Lagged).
send(w, message) ==
    IF ~(w.open /\ w.alive) THEN w
    ELSE IF Len(w.rx) >= channel_capacity
    THEN [w EXCEPT !.rx = Append(Tail(@), message), !.lagged = TRUE]
    ELSE [w EXCEPT !.rx = Append(@, message)]

CacheMessage(cmd, subdomain, id) ==
    [cmd |-> cmd, subdomain |-> subdomain, id |-> id]

\* ------------------------------------------------------------- listeners
\* A capture handler runs rpush, then set on the index key, then tx.send,
\* and may be suspended between them; catch_all then serves the fixture.

\* The index a listener stores for the observation it pushed.
capture_index(kind, len) ==
    IF kind = "dns" THEN 0 ELSE saturating_sub(len, 1)

CaptureStart(kind, sub, size) ==
    /\ next_id < MaxCaptures
    /\ Cardinality(captures) < MaxInflight
    /\ LET id == RequestIds[next_id + 1]
           payload == [id |-> id, len |-> size]
           swept == maybe_evict_requests(cache)
           r == rpush(cache, ListKey(sub), payload)
           h1 == HistAfterSweep(hist, cache, swept)
       IN /\ cache' = r.cache
          /\ next_id' = next_id + 1
          /\ captures' = captures \cup
                {[id |-> id, sub |-> sub, index |-> capture_index(kind, r.ret),
                  serve |-> (kind = "http"), pc |-> "index"]}
          /\ last_sweep' = SweepRecord(last_sweep, cache, swept)
          /\ hist' = [h1 EXCEPT ![sub].pushed = Append(@, payload),
                                ![sub].rets = Append(@, r.ret)]
    /\ UNCHANGED <<plane_vars, set_calls, last_set, written, share_tokens, ws>>

CaptureIndex(task) ==
    /\ task \in captures
    /\ task.pc = "index"
    /\ LET key == IndexKey(task.sub, task.id)
           value == to_string(task.index)
           r == set(cache, key, value)
       IN /\ cache' = r.cache
          /\ written' = IF r.ok THEN MapInsert(written, key, value)
                        ELSE written
    /\ captures' = (captures \ {task}) \cup {[task EXCEPT !.pc = "publish"]}
    /\ UNCHANGED <<plane_vars, next_id, set_calls, last_set, last_sweep, hist,
                   share_tokens, ws>>

CapturePublish(task) ==
    /\ task \in captures
    /\ task.pc = "publish"
    /\ ws' = send(ws, CacheMessage("new_request", task.sub, task.id))
    /\ captures' = IF task.serve
                   THEN (captures \ {task}) \cup {[task EXCEPT !.pc = "serve"]}
                   ELSE captures \ {task}
    /\ UNCHANGED <<plane_vars, cache, next_id, set_calls, last_set, last_sweep, hist,
                   written, share_tokens>>

\* serve_file: a tenant whose tree is missing or lacks index.html gets the
\* default index.html written back.
serve_file(c, subdomain) ==
    LET files_json == get(c, FilesKey(subdomain))
        files == IF files_json = <<>> THEN <<>> ELSE files_json[1]
    IN IF \E i \in 1..Len(files) : files[i] = "i"
       THEN [cache |-> c, ok |-> FALSE, value |-> files]
       ELSE LET r == set(c, FilesKey(subdomain), files \o DefaultTree)
            IN [cache |-> r.cache, ok |-> r.ok,
                value |-> files \o DefaultTree]

CaptureServe(task) ==
    /\ task \in captures
    /\ task.pc = "serve"
    /\ LET r == serve_file(cache, task.sub)
       IN /\ cache' = r.cache
          /\ written' = IF r.ok
                        THEN MapInsert(written, FilesKey(task.sub), r.value)
                        ELSE written
    /\ captures' = captures \ {task}
    /\ UNCHANGED <<plane_vars, next_id, set_calls, last_set, last_sweep, hist,
                   share_tokens, ws>>

\* The background task of start_cleanup_task, once a minute.
Cleanup ==
    /\ cache.current_memory > EvictionThreshold
    /\ cache' = maybe_evict_requests(cache)
    /\ last_sweep' = SweepRecord(last_sweep, cache, cache')
    /\ hist' = HistAfterSweep(hist, cache, cache')
    /\ UNCHANGED <<plane_vars, next_id, captures, set_calls, last_set, written,
                   share_tokens, ws>>

\* -------------------------------------------------------- request routes
\* The v2 request endpoints; each runs after verify_token_or_error.

\* Tokens the clients of the model present.
SessionTokens == {generate_jwt(s) : s \in Tenants}

ForgedTokens ==
    {[generate_jwt(s) EXCEPT !.signed = FALSE] : s \in Tenants}
      \cup {[generate_jwt(s) EXCEPT !.expired = TRUE] : s \in Tenants}

IssuedIds == {RequestIds[i] : i \in 1..next_id}

\* delete_request: [cache, status].
delete_request(c, subdomain, id) ==
    LET index_key == IndexKey(subdomain, id)
        found == get(c, index_key)
        index == IF found = <<>> THEN -1 ELSE parse_isize(found[1])
    IN IF index < 0 THEN [cache |-> c, status |-> 404]
       ELSE LET c1 == lset(c, ListKey(subdomain), index, Tombstone).cache
            IN [cache |-> delete(c1, index_key).cache, status |-> 200]

\* The `for request_json in &requests` loop of delete_all_requests.
RECURSIVE DeleteIndexKeys(_, _, _)
DeleteIndexKeys(c, subdomain, requests) ==
    IF requests = <<>> THEN c
    ELSE DeleteIndexKeys(
           IF Head(requests).id # ""
           THEN delete(c, IndexKey(subdomain, Head(requests).id)).cache
           ELSE c,
           subdomain, Tail(requests))

\* delete_all_requests: the cache afterwards.
delete_all_requests(c, subdomain) ==
    LET requests == lrange(c, ListKey(subdomain), 0, -1)
        c1 == DeleteIndexKeys(c, subdomain, requests)
    IN delete(c1, ListKey(subdomain)).cache

\* The KV keys still present, as the record of latest writes sees them.
WrittenAfter(w, c) == [k \in DOMAIN w \cap DOMAIN c.kv_store |-> w[k]]

DeleteRequest(token, id) ==
    /\ verify_token_or_error(token) # NoSubdomain
    /\ LET subdomain == verify_token_or_error(token)
           r == delete_request(cache, subdomain, id)
       IN /\ cache' = r.cache
          /\ written' = WrittenAfter(written, r.cache)
          /\ hist' = IF Items(r.cache, subdomain) = Items(cache, subdomain)
                     THEN hist
                     ELSE [hist EXCEPT ![subdomain].clean = FALSE]
          /\ ws' = IF r.status = 200
                   THEN send(ws, CacheMessage("delete_request", subdomain, id))
                   ELSE ws
    /\ UNCHANGED <<plane_vars, next_id, captures, set_calls, last_set, last_sweep,
                   share_tokens>>

DeleteAll(token) ==
    /\ verify_token_or_error(token) # NoSubdomain
    /\ LET subdomain == verify_token_or_error(token)
       IN /\ cache' = delete_all_requests(cache, subdomain)
          /\ written' = WrittenAfter(written, cache')
          /\ hist' = [hist EXCEPT ![subdomain] = FreshHist]
          /\ ws' = send(ws, CacheMessage("delete_all", subdomain, ""))
    /\ UNCHANGED <<plane_vars, next_id, captures, set_calls, last_set, last_sweep,
                   share_tokens>>

\* share_request: a token for an observation found in the caller's list.
ShareRequest(token, id) ==
    /\ verify_token_or_error(token) # NoSubdomain
    /\ LET subdomain == verify_token_or_error(token)
           requests == lrange(cache, ListKey(subdomain), 0, -1)
       IN /\ \E i \in 1..Len(requests) : requests[i].id = id
          /\ share_tokens' = share_tokens \cup {generate_share_jwt(id, subdomain)}
    /\ UNCHANGED <<plane_vars, cache, next_id, captures, set_calls, last_set, last_sweep,
                   hist, written, ws>>

\* ------------------------------------------------------------- KV writers
\* Cache::set reads the tenant's usage before it takes the kv_store write
\* lock, so two calls may both pass the check before either writes.

SetBegin(key, value) ==
    /\ Cardinality(set_calls) < MaxSetCalls
    /\ LET subdomain == extract_subdomain_from_key(key)
           ok == set_check(cache, key, value)
       IN /\ last_set' =
                [key |-> key, value |-> value, ok |-> ok,
                 usage |-> get_subdomain_size(cache, subdomain),
                 old |-> IF key \in DOMAIN cache.kv_store
                         THEN cache.kv_store[key].uncompressed_size ELSE 0]
          /\ set_calls' = IF ok
                          THEN set_calls \cup {[key |-> key, value |-> value]}
                          ELSE set_calls
    /\ UNCHANGED <<plane_vars, cache, next_id, captures, last_sweep, hist, written,
                   share_tokens, ws>>

SetFinish(call) ==
    /\ call \in set_calls
    /\ cache' = set_write(cache, call.key, call.value)
    /\ written' = MapInsert(written, call.key, call.value)
    /\ set_calls' = set_calls \ {call}
    /\ UNCHANGED <<plane_vars, next_id, captures, last_set, last_sweep, hist,
                   share_tokens, ws>>

Delete(key) ==
    /\ key \in DOMAIN cache.kv_store
    /\ cache' = delete(cache, key).cache
    /\ written' = MapRemove(written, key)
    /\ UNCHANGED <<plane_vars, next_id, captures, set_calls, last_set, last_sweep, hist,
                   share_tokens, ws>>

\* ------------------------------------------------------------- WebSocket
\* handle_socket_v2: the receive loop handles the client's commands, the
\* spawned send task forwards bus messages of subscribed subdomains.

WsOpen ==
    /\ ~ws.open
    /\ ws' = [ws EXCEPT !.open = TRUE, !.alive = TRUE]
    /\ UNCHANGED <<plane_vars, cache, next_id, captures, set_calls, last_set, last_sweep,
                   hist, written, share_tokens>>

\* {cmd: "connect", token}: the subdomain is subscribed before the
\* "connected" reply is sent; the history follows after that await.
WsConnect(token) ==
    /\ ws.open /\ ws.pc = "idle"
    /\ ws.connects < MaxConnects
    /\ LET subdomain == verify_jwt(token)
       IN ws' = IF subdomain # NoSubdomain
                THEN [ws EXCEPT !.sessions = @ \cup {subdomain},
                                !.pc = "snapshot", !.sub = subdomain,
                                !.connects = @ + 1,
                                !.tokens = @ \cup {token},
                                !.left = @ \ {subdomain}]
                ELSE [ws EXCEPT !.connects = @ + 1,
                                !.tokens = @ \cup {token}]
    /\ UNCHANGED <<plane_vars, cache, next_id, captures, set_calls, last_set, last_sweep,
                   hist, written, share_tokens>>

\* The lrange(0, -1) of the connect command and the "requests" frame.
WsSnapshot ==
    /\ ws.open /\ ws.pc = "snapshot"
    /\ LET requests == lrange(cache, ListKey(ws.sub), 0, -1)
           ids == {requests[i].id : i \in {j \in 1..Len(requests) :
                                             requests[j] # Tombstone}}
       IN ws' = [ws EXCEPT !.snapshot = @ \cup ids, !.pc = "idle",
                           !.sub = NoSubdomain,
                           !.stray = IF ids # {} /\ ws.sub \notin ws.sessions
                                     THEN @ \cup {ws.sub} ELSE @]
    /\ UNCHANGED <<plane_vars, cache, next_id, captures, set_calls, last_set, last_sweep,
                   hist, written, share_tokens>>

\* One turn of `while let Ok(msg) = rx.recv().await` in the send task, up to
\* the subscription test: the sessions lock is released before the frame is
\* built and the sender lock awaited.
WsForward ==
    /\ ws.open /\ ws.alive
    /\ ws.out = <<>>
    /\ \/ /\ ws.lagged
          /\ ws' = [ws EXCEPT !.alive = FALSE, !.rx = <<>>]
       \/ /\ ~ws.lagged
          /\ ws.rx # <<>>
          /\ LET msg == Head(ws.rx)
             IN ws' = [ws EXCEPT
                         !.rx = Tail(@),
                         !.out = IF msg.subdomain \in ws.sessions
                                 THEN <<msg>> ELSE <<>>]
    /\ UNCHANGED <<plane_vars, cache, next_id, captures, set_calls, last_set, last_sweep,
                   hist, written, share_tokens>>

\* The rest of the turn: sender.lock().await and the send of the frame.
WsSend ==
    /\ ws.open /\ ws.alive
    /\ ws.out # <<>>
    /\ LET msg == ws.out[1]
       IN ws' = [ws EXCEPT
                   !.out = <<>>,
                   !.live = IF msg.cmd = "new_request"
                            THEN @ \cup {msg.id} ELSE @,
                   !.stray = IF msg.subdomain \notin ws.sessions
                             THEN @ \cup {msg.subdomain} ELSE @]
    /\ UNCHANGED <<plane_vars, cache, next_id, captures, set_calls, last_set, last_sweep,
                   hist, written, share_tokens>>

\* {cmd: "disconnect", subdomain}
WsDisconnect(subdomain) ==
    /\ ws.open /\ ws.pc = "idle"
    /\ subdomain \in ws.sessions
    /\ ws' = [ws EXCEPT !.sessions = @ \ {subdomain},
                        !.left = @ \cup {subdomain}]
    /\ UNCHANGED <<plane_vars, cache, next_id, captures, set_calls, last_set, last_sweep,
                   hist, written, share_tokens>>

\* ------------------------------------------------- file and DNS routes
\* PUT /api/v2/dns and PUT /api/v2/files. A DNS record of the request body
\* is [type, domain, value], each a one-token string; the manifest under
\* dns:<sub> is the JSON list of the records.

\* CONFIG.server_domain, as labels.
server_domain == <<"example", "com">>

dns_record_types == {"A", "AAAA", "CNAME", "TXT"}

\* serde_json::to_string(&final_records)
RECURSIVE to_json(_)
to_json(records) ==
    IF records = <<>> THEN <<>>
    ELSE <<Head(records).type, Head(records).domain, Head(records).value>>
           \o to_json(Tail(records))

\* serde_json::from_str::<Vec<HashMap<String, String>>>
RECURSIVE from_json(_)
from_json(str) ==
    IF Len(str) < 3 THEN <<>>
    ELSE <<[type |-> str[1], domain |-> str[2], value |-> str[3]]>>
           \o from_json(SubSeq(str, 4, Len(str)))

\* domain.split('.'): the labels of a record's domain. update_dns accepts
\* letters, digits, '-' and '.', so a domain may have several labels.
labels_of(short_domain) ==
    IF short_domain = "a.s2" THEN <<"a", "s2">> ELSE <<short_domain>>

\* format!("{}.{}.{}.", short_domain, subdomain, CONFIG.server_domain)
fqdn_of(short_domain, subdomain) ==
    labels_of(short_domain) \o <<subdomain>> \o server_domain \o <<"">>

\* The key update_dns writes a record under.
store_key(record, subdomain) ==
    DnsRecordKey(record.type, fqdn_of(record.domain, subdomain))

\* The key update_dns deletes for a record of the old manifest:
\* format!("dns:{record_type}:{domain}") with the manifest's domain.
purge_key(old_record) == DnsRecordKey(old_record.type, <<old_record.domain>>)

\* get_dns: the records of the manifest.
get_dns(c, subdomain) ==
    LET found == get(c, DnsKey(subdomain))
    IN IF found = <<>> THEN <<>> ELSE from_json(found[1])

\* handle_a_record and its siblings: the override for a query, <<>> when
\* the server answers with its default.
lookup(c, type, name) == get(c, DnsRecordKey(type, name))

\* Request bodies of PUT /api/v2/dns.
RecordSets ==
    { <<>>,
      <<[type |-> "A", domain |-> "a", value |-> "1"]>>,
      <<[type |-> "A", domain |-> "a", value |-> "1"],
        [type |-> "TXT", domain |-> "b", value |-> "1"]>>,
      <<[type |-> "MX", domain |-> "a", value |-> "1"]>> }

\* Request bodies whose record domains have one label and two.
DottedRecordSets ==
    { <<[type |-> "A", domain |-> "a", value |-> "1"]>>,
      <<[type |-> "A", domain |-> "a.s2", value |-> "1"]>>,
      [i \in 1..4 |->
          [type |-> <<"A", "AAAA", "CNAME", "TXT">>[i], domain |-> "a.s2",
           value |-> "1"]] }

\* Request bodies of PUT /api/v2/files: trees with and without index.html.
FileTrees == { <<"i", "a">>, <<"a">>, <<"i", "a", "b", "a", "b", "a">> }

\* What a set or delete on the cache does to the record of latest writes.
WrittenBy(w, key, value, ok) == IF ok THEN MapInsert(w, key, value) ELSE w

\* update_dns up to its first cache call: the token, the validation of the
\* body and the read of the old manifest.
UpdateDnsBegin(token, records) ==
    /\ verify_token_or_error(token) # NoSubdomain
    /\ Cardinality(dns_calls) < MaxDnsCalls
    /\ LET subdomain == verify_token_or_error(token)
       IN IF \E i \in 1..Len(records) : records[i].type \notin dns_record_types
          THEN /\ last_reply' = [route |-> "dns", status |-> 400,
                                 refused |-> FALSE]
               /\ UNCHANGED dns_calls
          ELSE /\ dns_calls' = dns_calls \cup
                     {[sub |-> subdomain, records |-> records,
                       purge |-> get_dns(cache, subdomain),
                       store |-> records, refused |-> FALSE]}
               /\ UNCHANGED last_reply
    /\ UNCHANGED <<service_vars, cache, next_id, captures, set_calls, last_set, last_sweep,
                   hist, written, share_tokens, ws, dns_done>>

\* One turn of the "clear old records" loop.
UpdateDnsPurge(call) ==
    /\ call \in dns_calls
    /\ call.purge # <<>>
    /\ cache' = delete(cache, purge_key(Head(call.purge))).cache
    /\ written' = WrittenAfter(written, cache')
    /\ dns_calls' = (dns_calls \ {call})
                      \cup {[call EXCEPT !.purge = Tail(@)]}
    /\ UNCHANGED <<service_vars, next_id, captures, set_calls, last_set, last_sweep, hist,
                   share_tokens, ws, dns_done, last_reply>>

\* One turn of the "store new records" loop; the result of set is dropped.
UpdateDnsStore(call) ==
    /\ call \in dns_calls
    /\ call.purge = <<>> /\ call.store # <<>>
    /\ LET record == Head(call.store)
           key == store_key(record, call.sub)
           r == set(cache, key, <<record.value>>)
       IN /\ cache' = r.cache
          /\ written' = WrittenBy(written, key, <<record.value>>, r.ok)
          /\ dns_calls' = (dns_calls \ {call})
                            \cup {[call EXCEPT !.store = Tail(@),
                                               !.refused = @ \/ ~r.ok]}
    /\ UNCHANGED <<service_vars, next_id, captures, set_calls, last_set, last_sweep, hist,
                   share_tokens, ws, dns_done, last_reply>>

\* The write of the manifest and the reply, always 200.
UpdateDnsManifest(call) ==
    /\ call \in dns_calls
    /\ call.purge = <<>> /\ call.store = <<>>
    /\ LET key == DnsKey(call.sub)
           r == set(cache, key, to_json(call.records))
       IN /\ cache' = r.cache
          /\ written' = WrittenBy(written, key, to_json(call.records), r.ok)
          /\ last_reply' = [route |-> "dns", status |-> 200,
                            refused |-> call.refused \/ ~r.ok]
    /\ dns_done' = MapInsert(dns_done, call.sub, call.records)
    /\ dns_calls' = dns_calls \ {call}
    /\ UNCHANGED <<service_vars, next_id, captures, set_calls, last_set, last_sweep, hist,
                   share_tokens, ws>>

\* update_files: one set, its result dropped, and the reply, always 200.
UpdateFiles(token, tree) ==
    /\ verify_token_or_error(token) # NoSubdomain
    /\ LET key == FilesKey(verify_token_or_error(token))
           r == set(cache, key, tree)
       IN /\ cache' = r.cache
          /\ written' = WrittenBy(written, key, tree, r.ok)
          /\ last_reply' = [route |-> "files", status |-> 200,
                            refused |-> ~r.ok]
    /\ UNCHANGED <<service_vars, next_id, captures, set_calls, last_set, last_sweep, hist,
                   share_tokens, ws, dns_calls, dns_done>>

\* write_basic_file: a tree holding index.html alone is set under the key.
write_basic_file(c, subdomain) ==
    set(c, FilesKey(subdomain), DefaultTree)

\* The FileTree get_files parses from the stored value: empty without one.
stored_files(c, subdomain) ==
    LET files_json == get(c, FilesKey(subdomain))
    IN IF files_json = <<>> THEN <<>> ELSE files_json[1]

\* get_files: a tree that is missing or lacks index.html is handed to
\* write_basic_file and fetched again for the reply.
get_files(c, subdomain) ==
    LET files == stored_files(c, subdomain)
    IN IF \E i \in 1..Len(files) : files[i] = "i"
       THEN [cache |-> c, wrote |-> FALSE, ok |-> FALSE, body |-> files]
       ELSE LET r == write_basic_file(c, subdomain)
            IN [cache |-> r.cache, wrote |-> TRUE, ok |-> r.ok,
                body |-> stored_files(r.cache, subdomain)]

\* GET /api/v2/files with a valid token; the reply is always 200.
GetFiles(token) ==
    /\ verify_token_or_error(token) # NoSubdomain
    /\ LET subdomain == verify_token_or_error(token)
           r == get_files(cache, subdomain)
       IN /\ cache' = r.cache
          /\ written' = WrittenBy(written, FilesKey(subdomain), DefaultTree,
                                  r.ok)
          /\ last_reply' = [route |-> "files", status |-> 200,
                            refused |-> r.wrote /\ ~r.ok]
    /\ UNCHANGED <<service_vars, next_id, captures, set_calls, last_set,
                   last_sweep, hist, share_tokens, ws, dns_calls, dns_done>>

\* Request bodies of PUT /api/v2/files for the reads that follow: trees
\* with and without index.html, one of them filling the tenant's quota.
FixtureTrees ==
    { <<"a">>, <<"a", "b">>, <<"i", "a">>, <<"a", "b", "c", "d", "e">> }

\* ------------------------------------------------------ port allocation

\* The subdomains the bus names in allocate_tcp_port / release_tcp_port.
TcpSubdomains == Tenants \cup {"s3"}

\* The state of everything but the port allocation service.
http_vars ==
    <<cache, next_id, captures, set_calls, last_set, last_sweep, hist,
      written, share_tokens, ws, dns_calls, dns_done, last_reply>>

\* The state of everything but the TLS manager.
beside_tls == <<http_vars, tls_peers>>

\* for port in start..=end: the first port with a vacant entry, from `port`.
RECURSIVE first_vacant(_, _)
first_vacant_from_end(allocated, port) ==
    LET vacant == {q \in port..tcp_port_range_end : q \notin DOMAIN allocated}
    IN IF vacant = {} THEN NoPort
       ELSE CHOOSE q \in vacant : \A r \in vacant : r <= q

first_vacant(allocated, port) ==
    IF port > tcp_port_range_end THEN NoPort
    ELSE IF port \notin DOMAIN allocated THEN port
    ELSE first_vacant(allocated, port + 1)

\* allocate_port once it holds both write locks.
allocate_port(allocations, allocated, subdomain) ==
    IF subdomain \in DOMAIN allocations
    THEN [port |-> allocations[subdomain],
          port_allocations |-> allocations, allocated_ports |-> allocated]
    ELSE LET port == first_vacant(allocated, tcp_port_range_start)
         IN IF port = NoPort
            THEN [port |-> NoPort, port_allocations |-> allocations,
                  allocated_ports |-> allocated]
            ELSE [port |-> port,
                  port_allocations |-> MapInsert(allocations, subdomain, port),
                  allocated_ports |-> MapInsert(allocated, port, subdomain)]

\* release_port's allocated.remove(&port).
remove_port_skipped(allocated, port) ==
    allocated

remove_port(allocated, port) ==
    MapRemove(allocated, port)

\* allocate_port: self.port_allocations.write().
AllocateLockAllocations(th, subdomain) ==
    /\ tcp.pc[th].op = "idle"
    /\ tcp.allocations_lock = Unlocked
    /\ tcp' = [tcp EXCEPT !.allocations_lock = th,
                          !.pc[th] = [op |-> "allocate", at |-> "allocated",
                                      subdomain |-> subdomain,
                                      port |-> NoPort]]
    /\ UNCHANGED <<http_vars, tcp_peers>>

\* allocate_port: self.allocated_ports.write().
AllocateLockAllocated(th) ==
    /\ tcp.pc[th].op = "allocate" /\ tcp.pc[th].at = "allocated"
    /\ tcp.allocated_lock = Unlocked
    /\ tcp' = [tcp EXCEPT !.allocated_lock = th, !.pc[th].at = "body"]
    /\ UNCHANGED <<http_vars, tcp_peers>>

\* allocate_port under both locks, and the drop of the guards on return.
AllocateBody(th) ==
    /\ tcp.pc[th].op = "allocate" /\ tcp.pc[th].at = "body"
    /\ LET r == allocate_port(tcp.port_allocations, tcp.allocated_ports,
                              tcp.pc[th].subdomain)
       IN tcp' = [tcp EXCEPT
                    !.port_allocations = r.port_allocations,
                    !.allocated_ports = r.allocated_ports,
                    !.allocations_lock = Unlocked,
                    !.allocated_lock = Unlocked,
                    !.pc[th] = TcpIdle,
                    !.last_alloc =
                        [called |-> TRUE, subdomain |-> tcp.pc[th].subdomain,
                         port |-> r.port,
                         before |-> [port_allocations |-> tcp.port_allocations,
                                     allocated_ports |-> tcp.allocated_ports],
                         after |-> [port_allocations |-> r.port_allocations,
                                    allocated_ports |-> r.allocated_ports]]]
    /\ UNCHANGED <<http_vars, tcp_peers>>

\* release_port: self.port_allocations.write().
ReleaseLockAllocations(th, subdomain) ==
    /\ tcp.pc[th].op = "idle"
    /\ tcp.allocations_lock = Unlocked
    /\ tcp' = [tcp EXCEPT !.allocations_lock = th,
                          !.pc[th] = [op |-> "release", at |-> "remove",
                                      subdomain |-> subdomain,
                                      port |-> NoPort]]
    /\ UNCHANGED <<http_vars, tcp_peers>>

\* release_port: allocations.remove(subdomain); without an entry it returns.
ReleaseRemoveAllocation(th) ==
    /\ tcp.pc[th].op = "release" /\ tcp.pc[th].at = "remove"
    /\ LET subdomain == tcp.pc[th].subdomain
       IN IF subdomain \in DOMAIN tcp.port_allocations
          THEN tcp' = [tcp EXCEPT
                         !.port_allocations = MapRemove(@, subdomain),
                         !.pc[th].at = "allocated",
                         !.pc[th].port = tcp.port_allocations[subdomain]]
          ELSE tcp' = [tcp EXCEPT
                         !.allocations_lock = Unlocked,
                         !.pc[th] = TcpIdle,
                         !.last_release =
                             [called |-> TRUE, subdomain |-> subdomain,
                              port |-> NoPort]]
    /\ UNCHANGED <<http_vars, tcp_peers>>

\* release_port: self.allocated_ports.write().
ReleaseLockAllocated(th) ==
    /\ tcp.pc[th].op = "release" /\ tcp.pc[th].at = "allocated"
    /\ tcp.allocated_lock = Unlocked
    /\ tcp' = [tcp EXCEPT !.allocated_lock = th, !.pc[th].at = "remove_port"]
    /\ UNCHANGED <<http_vars, tcp_peers>>

\* release_port: allocated.remove(&port), and the drop of both guards.
ReleaseRemoveAllocated(th) ==
    /\ tcp.pc[th].op = "release" /\ tcp.pc[th].at = "remove_port"
    /\ tcp' = [tcp EXCEPT
                 !.allocated_ports = remove_port(@, tcp.pc[th].port),
                 !.allocations_lock = Unlocked,
                 !.allocated_lock = Unlocked,
                 !.pc[th] = TcpIdle,
                 !.last_release =
                     [called |-> TRUE, subdomain |-> tcp.pc[th].subdomain,
                      port |-> tcp.pc[th].port]]
    /\ UNCHANGED <<http_vars, tcp_peers>>

\* ------------------------------------------------------------------ TLS

\* A PEM block: its label and whether its body is base64 of valid DER.
PemBlock(label, der) == [label |-> label, der |-> der]

\* The certificate chains handed to reload_*: nothing but text, one
\* certificate, another certificate, a block whose base64 is broken.
ChainPems ==
    { <<>>,
      <<PemBlock("CERTIFICATE", "c1")>>,
      <<PemBlock("CERTIFICATE", "c2"), PemBlock("CERTIFICATE", "ca")>>,
      <<PemBlock("MALFORMED", "")>> }

\* The private keys handed to reload_*: none, a PKCS8 key, an EC key, a
\* PKCS8 block whose DER is no key.
KeyPems ==
    { <<>>,
      <<PemBlock("PRIVATE KEY", "k1")>>,
      <<PemBlock("EC PRIVATE KEY", "k2")>>,
      <<PemBlock("PRIVATE KEY", "junk")>> }

\* DER bodies any_supported_type accepts as a signing key.
SigningKeys == {"k1", "k2"}

IsLabel(label, block) == block.label = label

Malformed(pem) == \E i \in 1..Len(pem) : pem[i].label = "MALFORMED"

\* parse_certificates: the CERTIFICATE blocks; a broken block is an error.
parse_certificates(pem) ==
    IF Malformed(pem) THEN [ok |-> FALSE, certs |-> <<>>]
    ELSE [ok |-> TRUE,
          certs |-> SelectSeq(pem, LAMBDA b : IsLabel("CERTIFICATE", b))]

\* One of parse_private_key's three passes: the keys of one label, none when
\* the pass hit a broken block (unwrap_or_default).
KeysOf(pem, label) ==
    IF Malformed(pem) THEN <<>>
    ELSE SelectSeq(pem, LAMBDA b : IsLabel(label, b))

\* parse_private_key: the first PKCS8 key, else the first RSA key, else the
\* first EC key.
parse_private_key(pem) ==
    IF KeysOf(pem, "PRIVATE KEY") # <<>>
    THEN [ok |-> TRUE, key |-> Head(KeysOf(pem, "PRIVATE KEY"))]
    ELSE IF KeysOf(pem, "RSA PRIVATE KEY") # <<>>
    THEN [ok |-> TRUE, key |-> Head(KeysOf(pem, "RSA PRIVATE KEY"))]
    ELSE IF KeysOf(pem, "EC PRIVATE KEY") # <<>>
    THEN [ok |-> TRUE, key |-> Head(KeysOf(pem, "EC PRIVATE KEY"))]
    ELSE [ok |-> FALSE, key |-> PemBlock("", "")]

\* build_certified_key: Err unless the chain has a certificate and the key
\* parses and is a supported signing key.
build_certified_key_unchecked(chain_pem, key_pem) ==
    [ok |-> TRUE,
     certified_key |-> << [cert |-> chain_pem, key |-> key_pem] >>]

build_certified_key(chain_pem, key_pem) ==
    LET certs == parse_certificates(chain_pem)
        key_der == parse_private_key(key_pem)
    IN IF ~certs.ok \/ certs.certs = <<>> THEN [ok |-> FALSE, certified_key |-> NoCert]
       ELSE IF ~key_der.ok THEN [ok |-> FALSE, certified_key |-> NoCert]
       ELSE IF key_der.key.der \notin SigningKeys
       THEN [ok |-> FALSE, certified_key |-> NoCert]
       ELSE [ok |-> TRUE,
             certified_key |->
                 << [cert |-> certs.certs, key |-> key_der.key] >>]

\* rebuild_config: a fresh ServerConfig over the two slots replaces the
\* stored one.
rebuild_config_needs_both(t) ==
    IF t.domain_cert # NoCert /\ t.ip_cert # NoCert
    THEN [t EXCEPT !.built = @ + 1, !.config = t.built + 1]
    ELSE t

rebuild_config(t) ==
    [t EXCEPT !.built = @ + 1, !.config = t.built + 1]

\* TlsManager::acceptor: None without a config.
acceptor(t) ==
    IF t.config = NoConfig THEN <<>> ELSE <<t.config>>

TlsNow(t) == TlsSnapshot(t.config, t.domain_cert, t.ip_cert)

\* The first half of reload_domain / reload_ip: build_certified_key, the
\* return of its error, or the store into the slot.
store_slot(t, slot, chain_pem, key_pem) ==
    LET built == build_certified_key(chain_pem, key_pem)
        stored == IF ~built.ok THEN t
                  ELSE IF slot = "domain"
                  THEN [t EXCEPT !.domain_cert = built.certified_key,
                                 !.pending = @ \cup {slot}]
                  ELSE [t EXCEPT !.ip_cert = built.certified_key,
                                 !.pending = @ \cup {slot}]
    IN [stored EXCEPT
          !.reloads = @ + 1,
          !.last_reload =
              [called |-> TRUE, slot |-> slot, phase |-> "store",
               ok |-> built.ok,
               chain_pem |-> chain_pem, key_pem |-> key_pem,
               before |-> TlsNow(t), after |-> TlsNow(stored)]]

reload_domain(chain_pem, key_pem) ==
    /\ tls.reloads < MaxReloads
    /\ "domain" \notin tls.pending
    /\ tls' = store_slot(tls, "domain", chain_pem, key_pem)
    /\ UNCHANGED beside_tls

reload_ip(chain_pem, key_pem) ==
    /\ tls.reloads < MaxReloads
    /\ "ip" \notin tls.pending
    /\ tls' = store_slot(tls, "ip", chain_pem, key_pem)
    /\ UNCHANGED beside_tls

\* The second half: rebuild_config and Ok(()).
ReloadRebuild(slot) ==
    /\ slot \in tls.pending
    /\ LET rebuilt == rebuild_config(tls)
       IN tls' = [rebuilt EXCEPT
                    !.pending = @ \ {slot},
                    !.succeeded = TRUE,
                    !.last_reload =
                        [tls.last_reload EXCEPT
                           !.slot = slot, !.phase = "rebuild", !.ok = TRUE,
                           !.chain_pem = <<>>, !.key_pem = <<>>,
                           !.before = TlsNow(tls), !.after = TlsNow(rebuilt)]]
    /\ UNCHANGED beside_tls

\* ----------------------------------------------------------------- ACME

\* CONFIG.txt_record: what the DNS server answers without a custom record.
txt_record == <<"default">>

\* str::to_lowercase on one label.
to_lowercase(label) ==
    IF label = "EXAMPLE" THEN "example" ELSE label

\* identifier.trim_start_matches("*."): every leading "*" label goes.
RECURSIVE trim_start_matches(_)
trim_start_matches(identifier) ==
    IF identifier # <<>> /\ Head(identifier) = "*"
    THEN trim_start_matches(Tail(identifier))
    ELSE identifier

\* format!("_acme-challenge.{}", ...).
challenge_domain_of(identifier) ==
    <<"_acme-challenge">> \o trim_start_matches(identifier)

\* The name set_txt / clear_txt use: a trailing dot added when missing, and
\* lowercased.
txt_domain(challenge_domain) ==
    LET dotted == IF challenge_domain # <<>>
                     /\ challenge_domain[Len(challenge_domain)] = ""
                  THEN challenge_domain
                  ELSE Append(challenge_domain, "")
    IN [i \in 1..Len(dotted) |-> to_lowercase(dotted[i])]

\* DnsChallengeHandler::set_txt: cache.set of dns:TXT:<domain>.
set_txt(c, challenge_domain, token) ==
    set(c, DnsRecordKey("TXT", txt_domain(challenge_domain)), <<token>>)

\* DnsChallengeHandler::clear_txt: cache.delete of dns:TXT:<domain>.
clear_txt(c, challenge_domain) ==
    delete(c, DnsRecordKey("TXT", txt_domain(challenge_domain))).cache

\* handle_txt_record: the TXT records answered for a name.
handle_txt_record(c, name) ==
    LET custom_record == get(c, DnsRecordKey("TXT", name))
    IN IF custom_record # <<>> THEN <<custom_record[1]>> ELSE <<txt_record>>

\* The authorizations of an order: one name; a name and its wildcard, each
\* with its own token; two names; a name already valid beside its wildcard.
Auth(identifier, token, needs_validation) ==
    [identifier |-> identifier, token |-> token,
     needs_validation |-> needs_validation]

AuthorizationSets ==
    { <<Auth(<<"example", "com">>, "t1", TRUE)>>,
      <<Auth(<<"example", "com">>, "t1", TRUE),
        Auth(<<"*", "example", "com">>, "t2", TRUE)>>,
      <<Auth(<<"EXAMPLE", "com">>, "t3", TRUE),
        Auth(<<"other", "com">>, "t1", TRUE)>>,
      <<Auth(<<"example", "com">>, "t1", FALSE),
        Auth(<<"*", "example", "com">>, "t3", TRUE)>>,
      <<Auth(<<"example", "com">>, "t2", FALSE)>> }

\* The challenge domains of a list of authorizations, each once.
RECURSIVE DomainsOf(_)
DomainsOf(auths) ==
    IF auths = <<>> THEN <<>>
    ELSE LET rest == DomainsOf(Tail(auths))
             d == challenge_domain_of(Head(auths).identifier)
         IN IF \E i \in 1..Len(rest) : rest[i] = d THEN rest
            ELSE <<d>> \o rest

Step(op, auth) ==
    [op |-> op, challenge_domain |-> challenge_domain_of(auth.identifier),
     token |-> auth.token]

\* The body of the "set ALL TXT records" loop for the domains left: per
\* domain, a set_txt for each of its entries, then a wait_propagation for
\* each of them.
RECURSIVE WorkOf(_, _)
WorkOf(domains, pending) ==
    IF domains = <<>> THEN <<>>
    ELSE LET txt_entries ==
                 SelectSeq(pending,
                           LAMBDA a : challenge_domain_of(a.identifier)
                                          = Head(domains))
         IN [i \in 1..Len(txt_entries) |-> Step("set", txt_entries[i])]
              \o [i \in 1..Len(txt_entries) |-> Step("wait", txt_entries[i])]
              \o WorkOf(Tail(domains), pending)

TxtSetAt(name) ==
    IF name \in DOMAIN acme.txt_set THEN acme.txt_set[name] ELSE {}

\* process_all_authorizations up to its first set_txt: the challenges and
\* the TXT values per challenge domain; with nothing pending it returns.
ProcessAllAuthorizations(authorizations) ==
    /\ acme.pc = "idle"
    /\ acme.orders < MaxOrders
    /\ LET pending == SelectSeq(authorizations,
                                LAMBDA a : a.needs_validation)
       IN acme' = [acme EXCEPT
                     !.orders = @ + 1,
                     !.pc = IF pending = <<>> THEN "idle" ELSE "set",
                     !.result = IF pending = <<>> THEN "ok" ELSE "",
                     !.pending = pending,
                     !.notify = pending,
                     !.ready = {},
                     !.confirmed = {},
                     !.work = WorkOf(DomainsOf(pending), pending),
                     !.challenge_domains =
                         IF pending = <<>> THEN <<>>
                         ELSE DomainsOf(authorizations)]
    /\ UNCHANGED <<http_vars, acme_peers>>

\* handler.set_txt(challenge_domain, txt_value).await?
AcmeSetTxt ==
    /\ acme.pc = "set"
    /\ acme.work # <<>> /\ Head(acme.work).op = "set"
    /\ LET step == Head(acme.work)
           name == txt_domain(step.challenge_domain)
           r == set_txt(cache, step.challenge_domain, step.token)
       IN /\ cache' = r.cache
          /\ written' = WrittenBy(written, DnsRecordKey("TXT", name),
                                  <<step.token>>, r.ok)
          /\ acme' = IF r.ok
                     THEN [acme EXCEPT
                             !.work = Tail(@),
                             !.txt_set = MapInsert(@, name,
                                             TxtSetAt(name) \cup {step.token})]
                     ELSE [acme EXCEPT !.pc = "idle", !.work = <<>>,
                                       !.result = "error"]
    /\ UNCHANGED <<next_id, captures, set_calls, last_set, last_sweep, hist,
                   share_tokens, ws, dns_calls, dns_done, last_reply,
                   acme_peers>>

\* The public resolvers wait_propagation asks.
resolvers == {"8.8.8.8", "1.1.1.1"}

\* query_txt's results: Ok(Some(value)), Ok(None) and Err.
SomeTxt(value) == [kind |-> "some", value |-> value]
NoTxt == [kind |-> "none", value |-> <<>>]
QueryFailed == [kind |-> "err", value |-> <<>>]

\* What a resolver may answer for a name: the record served now, a value it
\* still caches from an earlier set_txt, nothing yet, or no answer at all.
query_txt(c, name) ==
    {SomeTxt(handle_txt_record(c, name)[1])}
        \cup {SomeTxt(<<token>>) : token \in TxtSetAt(name)}
        \cup {NoTxt, QueryFailed}

\* One round of wait_propagation's loop: every resolver returned the
\* expected value.
all_confirmed_by_one(answers, expected_token) ==
    \E r \in resolvers : answers[r] = SomeTxt(<<expected_token>>)

all_confirmed(answers, expected_token) ==
    \A r \in resolvers : answers[r] = SomeTxt(<<expected_token>>)

\* One round of handler.wait_propagation(challenge_domain, txt_value, 1200):
\* both resolvers are asked; with both confirming it returns Ok, otherwise it
\* sleeps and asks again.
AcmeWaitPropagation ==
    /\ acme.pc = "set"
    /\ acme.work # <<>> /\ Head(acme.work).op = "wait"
    /\ LET step == Head(acme.work)
           name == txt_domain(step.challenge_domain)
       IN \E answers \in [resolvers -> query_txt(cache, name)] :
             acme' = [acme EXCEPT
                        !.confirmed = @ \cup
                            {<<r, name, step.token>> : r \in
                                {q \in resolvers :
                                    answers[q] = SomeTxt(<<step.token>>)}},
                        !.work = IF all_confirmed(answers, step.token)
                                 THEN Tail(@) ELSE @]
    /\ UNCHANGED <<http_vars, acme_peers>>

\* wait_propagation's start.elapsed() >= timeout: Err, and
\* process_all_authorizations returns it.
AcmeWaitTimeout ==
    /\ acme.pc = "set"
    /\ acme.work # <<>> /\ Head(acme.work).op = "wait"
    /\ acme' = [acme EXCEPT !.pc = "idle", !.work = <<>>,
                            !.result = "error"]
    /\ UNCHANGED <<http_vars, acme_peers>>

\* order.set_challenge_ready(url).await? for the next pending challenge; a
\* failed call ends process_all_authorizations with its error.
AcmeSetChallengeReady ==
    /\ acme.pc = "set"
    /\ acme.work = <<>> /\ acme.notify # <<>>
    /\ \E sent \in BOOLEAN :
          acme' = IF sent
                  THEN [acme EXCEPT !.notify = Tail(@),
                                    !.ready = @ \cup {Head(acme.notify)}]
                  ELSE [acme EXCEPT !.pc = "idle", !.notify = <<>>,
                                    !.result = "error"]
    /\ UNCHANGED <<http_vars, acme_peers>>

\* wait_for_all_authorizations_valid: the ACME server looks up each
\* challenge's TXT value.
AcmeValidate ==
    /\ acme.pc = "set"
    /\ acme.work = <<>> /\ acme.notify = <<>>
    /\ LET valid(a) ==
               \E i \in 1..Len(handle_txt_record(cache,
                           txt_domain(challenge_domain_of(a.identifier)))) :
                   handle_txt_record(cache,
                       txt_domain(challenge_domain_of(a.identifier)))[i]
                       = <<a.token>>
       IN acme' = IF \A i \in 1..Len(acme.pending) : valid(acme.pending[i])
                  THEN [acme EXCEPT !.pc = "clear"]
                  ELSE [acme EXCEPT !.pc = "idle", !.result = "error"]
    /\ UNCHANGED <<http_vars, acme_peers>>

\* handler.clear_txt(challenge_domain).await? for each challenge domain, and
\* Ok(()) after the last.
AcmeClearTxt ==
    /\ acme.pc = "clear"
    /\ acme.challenge_domains # <<>>
    /\ LET challenge_domain == Head(acme.challenge_domains)
           name == txt_domain(challenge_domain)
       IN /\ cache' = clear_txt(cache, challenge_domain)
          /\ written' = WrittenAfter(written, cache')
          /\ acme' = [acme EXCEPT
                        !.challenge_domains = Tail(@),
                        !.txt_set = MapRemove(@, name),
                        !.pc = IF Tail(acme.challenge_domains) = <<>>
                               THEN "idle" ELSE "clear",
                        !.result = IF Tail(acme.challenge_domains) = <<>>
                                   THEN "ok" ELSE ""]
    /\ UNCHANGED <<next_id, captures, set_calls, last_set, last_sweep, hist,
                   share_tokens, ws, dns_calls, dns_done, last_reply,
                   acme_peers>>

\* -------------------------------------------------------------- renewal

\* The state of everything the renewal tasks leave alone.
beside_renewal == <<http_vars, tcp, acme, smtp, dns, limiter, resolution,
      listing, derivation, supervisor, evictors, broker>>

\* The certificate in the TLS slot a task renews.
SlotOf(t, task) ==
    IF task = "domain" THEN t.domain_cert ELSE t.ip_cert

\* The renewal loop after a check returned: `if let Err(e) = ... { error! }`,
\* then the sleep of the interval.
renewal_loop_after_propagating(ok) ==
    IF ok THEN "sleep" ELSE "ended"

renewal_loop_after(ok) ==
    "sleep"

\* The renewal state once task's check has returned ok or an error, the TLS
\* manager then being t.
CheckReturned(task, ok, t) ==
    [renewal EXCEPT
       !.task[task].pc = renewal_loop_after(ok),
       !.task[task].attempt = 0,
       !.last_check =
           [called |-> TRUE, task |-> task, ok |-> ok,
            attempt |-> renewal.task[task].attempt,
            before |-> renewal.task[task].slot_before,
            after |-> SlotOf(t, task)]]

\* sleep(interval).await returns and the loop turns.
RenewalWake(task) ==
    /\ renewal.task[task].pc = "sleep"
    /\ renewal' = [renewal EXCEPT
                     !.task[task].pc = "check",
                     !.task[task].slot_before = SlotOf(tls, task)]
    /\ UNCHANGED <<tls, beside_renewal>>

\* check_and_renew_domain / check_and_renew_ip up to the decision: the load
\* from storage or the validation fails, the certificate is fresh, or it
\* needs renewal.
CheckAndRenew(task) ==
    /\ renewal.task[task].pc = "check"
    /\ \E outcome \in {"load_err", "validate_err", "fresh", "needs"} :
          /\ renewal.stored[task] = NoCert => outcome \in {"load_err", "needs"}
          /\ renewal' =
                IF outcome = "needs"
                THEN [renewal EXCEPT !.task[task].pc = "client"]
                ELSE CheckReturned(task, outcome = "fresh", tls)
    /\ UNCHANGED <<tls, beside_renewal>>

\* create_acme_client().await?
CreateAcmeClient(task) ==
    /\ renewal.task[task].pc = "client"
    /\ \E created \in BOOLEAN :
          renewal' = IF created
                     THEN [renewal EXCEPT !.task[task].pc = "attempt",
                                          !.task[task].attempt = 1]
                     ELSE CheckReturned(task, FALSE, tls)
    /\ UNCHANGED <<tls, beside_renewal>>

\* One attempt of obtain_*_certificate that ended in Err: the next attempt
\* after the delay, or the last error after the third.
ObtainFailed(task) ==
    /\ renewal.task[task].pc = "attempt"
    /\ renewal' = IF renewal.task[task].attempt < max_attempts
                  THEN [renewal EXCEPT !.task[task].attempt = @ + 1]
                  ELSE CheckReturned(task, FALSE, tls)
    /\ UNCHANGED <<tls, beside_renewal>>

\* One attempt that ended in Ok((chain, key)): save_certificate(..)?, then
\* reload_*(..)? up to its store into the slot.
ObtainSucceeded(task, chain_pem, key_pem) ==
    /\ renewal.task[task].pc = "attempt"
    /\ tls.reloads < MaxReloads
    /\ task \notin tls.pending
    /\ \E saved \in BOOLEAN :
          IF ~saved
          THEN /\ renewal' = CheckReturned(task, FALSE, tls)
               /\ UNCHANGED tls
          ELSE LET stored == store_slot(tls, task, chain_pem, key_pem)
                   kept == [renewal EXCEPT
                              !.stored[task] = <<chain_pem, key_pem>>]
               IN /\ tls' = stored
                  /\ renewal' =
                        IF stored.last_reload.ok
                        THEN [kept EXCEPT !.task[task].pc = "rebuild"]
                        ELSE [CheckReturned(task, FALSE, stored) EXCEPT
                                !.stored[task] = <<chain_pem, key_pem>>]
    /\ UNCHANGED beside_renewal

\* The rest of reload_*: rebuild_config, and Ok(()) up to the loop.
RenewalRebuild(task) ==
    /\ renewal.task[task].pc = "rebuild"
    /\ LET rebuilt == [rebuild_config(tls) EXCEPT
                         !.pending = @ \ {task}, !.succeeded = TRUE]
       IN /\ tls' = rebuilt
          /\ renewal' = CheckReturned(task, TRUE, rebuilt)
    /\ UNCHANGED beside_renewal

\* What an ACME order may hand back: a chain with its key, or a chain whose
\* key the TLS manager cannot use.
ObtainedCerts ==
    { << <<PemBlock("CERTIFICATE", "c1")>>,
         <<PemBlock("PRIVATE KEY", "k1")>> >>,
      << <<PemBlock("CERTIFICATE", "c1")>>,
         <<PemBlock("PRIVATE KEY", "junk")>> >> }

\* The steps of one renewal task.
RenewalStep(task) ==
    \/ RenewalWake(task)
    \/ CheckAndRenew(task)
    \/ CreateAcmeClient(task)
    \/ ObtainFailed(task)
    \/ \E cert \in ObtainedCerts : ObtainSucceeded(task, cert[1], cert[2])
    \/ RenewalRebuild(task)

\* ----------------------------------------------------------------- SMTP
\* handle_smtp_connection reads one line at a time; each action below is one
\* pass of its loop for one kind of line.  A host name is its sequence of
\* labels, and a tenant name one label of CONFIG.subdomain_length characters
\* over the subdomain alphabet.

\* The CONFIG.subdomain_length characters at the end of a label ("" when the
\* label is shorter, so that the slice would run over the dot before it).
last_chars(label) ==
    IF label \in Tenants THEN label
    ELSE IF label = "xs1" THEN "s1"
    ELSE ""

\* str::rfind over labels: where the last occurrence of `needle` begins,
\* 0 when there is none.
rfind(host, needle) ==
    LET at == {i \in 1..Len(host) :
                  /\ i + Len(needle) - 1 <= Len(host)
                  /\ SubSeq(host, i, i + Len(needle) - 1) = needle}
    IN IF at = {} THEN 0 ELSE CHOOSE i \in at : \A j \in at : j <= i

\* utils::get_subdomain_from_hostname: the label right before the last
\* occurrence of the server domain, when it is a well-formed tenant name.
get_subdomain_from_hostname(host) ==
    IF host = <<>> THEN NoSubdomain
    ELSE LET lowered == [i \in 1..Len(host) |-> to_lowercase(host[i])]
             r_index == rfind(lowered, server_domain)
         IN IF r_index = 0 THEN NoSubdomain
            ELSE IF r_index < 2 THEN NoSubdomain
            ELSE LET subdomain == last_chars(lowered[r_index - 1])
                 IN IF subdomain \notin Tenants THEN NoSubdomain
                    ELSE subdomain

\* An address is the number of its '@' characters and the host after the
\* first of them.
Address(ats, host) == [ats |-> ats, host |-> host]

extract_subdomain_from_email(email) ==
    IF email.ats # 1 THEN NoSubdomain
    ELSE get_subdomain_from_hostname(email.host)

\* The addresses a client names in RCPT TO and in headers.
Addresses ==
    { Address(1, <<"s1">> \o server_domain),
      Address(1, <<"s2">> \o server_domain),
      Address(1, <<"evil", "org">>) }

\* The lines of a message: a To, Cc or Bcc header naming one address, or a
\* line of the body (the empty line that ends the headers included).
HeaderLine(name, address) == [header |-> name, address |-> address]
BodyLine == [header |-> "", address |-> NoAddress]

DataLines ==
    { HeaderLine("To", Address(1, <<"s2">> \o server_domain)),
      HeaderLine("Cc", Address(1, <<"s1">> \o server_domain)),
      BodyLine }

\* The headers of a message: its lines before the first body line.
RECURSIVE HeadersOf(_)
HeadersOf(email_data) ==
    IF email_data = <<>> \/ Head(email_data) = BodyLine THEN <<>>
    ELSE <<Head(email_data)>> \o HeadersOf(Tail(email_data))

AddressesOf(headers, name) ==
    LET named == SelectSeq(headers, LAMBDA h : h.header = name)
    IN [i \in 1..Len(named) |-> named[i].address]

\* extract_all_recipients: the To addresses, then Cc, then Bcc.
extract_all_recipients(email_data) ==
    LET headers == HeadersOf(email_data)
    IN AddressesOf(headers, "To") \o AddressesOf(headers, "Cc")
         \o AddressesOf(headers, "Bcc")

\* The subdomain of the first address that has one.
RECURSIVE first_extracted(_)
first_extracted(recipients) ==
    IF recipients = <<>> THEN NoSubdomain
    ELSE IF extract_subdomain_from_email(Head(recipients)) # NoSubdomain
    THEN extract_subdomain_from_email(Head(recipients))
    ELSE first_extracted(Tail(recipients))

smtp_peers == <<tcp, tls, acme, renewal, dns, limiter, resolution, listing,
      derivation, supervisor, evictors, broker>>
beside_smtp ==
    <<captures, set_calls, last_set, share_tokens, dns_calls, dns_done,
      last_reply, smtp_peers>>
smtp_cache_vars == <<cache, next_id, last_sweep, hist, written, ws>>

\* What the session was when it read `line`, and what it did with it.
LineRead(line, recorded, uid, reply) ==
    [called |-> TRUE, line |-> line, data_mode |-> smtp.data_mode,
     subdomain |-> smtp.subdomain, mail_from |-> smtp.mail_from,
     rcpt_to |-> smtp.rcpt_to, email_data |-> smtp.email_data,
     recorded |-> recorded, uid |-> uid, reply |-> reply]

\* accept(): a new connection starts with the locals of handle_smtp_connection.
SmtpAccept ==
    /\ ~smtp.open
    /\ smtp' = [SmtpNew EXCEPT !.open = TRUE]
    /\ UNCHANGED <<smtp_cache_vars, beside_smtp>>

\* HELO, EHLO and NOOP answer 250, VRFY and EXPN 252, HELP 214, any other
\* word 500; none of them touches the session.
ReplyOf(command) ==
    IF command \in {"HELO", "EHLO", "NOOP"} THEN 250
    ELSE IF command \in {"VRFY", "EXPN"} THEN 252
    ELSE IF command = "HELP" THEN 214
    ELSE 500

SmtpCommand(command) ==
    /\ smtp.open /\ ~smtp.data_mode
    /\ smtp' = [smtp EXCEPT !.last = LineRead(command, 0, NoSubdomain,
                                               ReplyOf(command))]
    /\ UNCHANGED <<smtp_cache_vars, beside_smtp>>

\* MAIL FROM:<address>, or MAIL with anything else (501).
SmtpMail(well_formed) ==
    /\ smtp.open /\ ~smtp.data_mode
    /\ smtp' = IF well_formed
               THEN [smtp EXCEPT !.mail_from = Address(1, <<"sender", "org">>),
                                 !.mail_since = TRUE,
                                 !.last = LineRead("MAIL", 0, NoSubdomain, 250)]
               ELSE [smtp EXCEPT !.last = LineRead("MAIL", 0, NoSubdomain, 501)]
    /\ UNCHANGED <<smtp_cache_vars, beside_smtp>>

\* RCPT TO:<recipient>: the first recipient with a tenant name fixes the
\* session's subdomain.
SmtpRcpt(recipient) ==
    /\ smtp.open /\ ~smtp.data_mode
    /\ Len(smtp.rcpt_to) < MaxRcpt
    /\ smtp' = [smtp EXCEPT
                  !.subdomain = IF @ = NoSubdomain
                                THEN extract_subdomain_from_email(recipient)
                                ELSE @,
                  !.rcpt_to = Append(@, recipient),
                  !.rcpt_since = TRUE,
                  !.last = LineRead("RCPT", 0, NoSubdomain, 250)]
    /\ UNCHANGED <<smtp_cache_vars, beside_smtp>>

SmtpData ==
    /\ smtp.open /\ ~smtp.data_mode
    /\ smtp' = IF smtp.mail_from = NoAddress \/ smtp.rcpt_to = <<>>
               THEN [smtp EXCEPT !.last = LineRead("DATA", 0, NoSubdomain, 503)]
               ELSE [smtp EXCEPT !.data_mode = TRUE,
                                 !.last = LineRead("DATA", 0, NoSubdomain, 354)]
    /\ UNCHANGED <<smtp_cache_vars, beside_smtp>>

SmtpRset ==
    /\ smtp.open /\ ~smtp.data_mode
    /\ smtp' = [smtp EXCEPT !.mail_from = NoAddress, !.rcpt_to = <<>>,
                            !.email_data = <<>>,
                            !.mail_since = FALSE, !.rcpt_since = FALSE,
                            !.last = LineRead("RSET", 0, NoSubdomain, 250)]
    /\ UNCHANGED <<smtp_cache_vars, beside_smtp>>

SmtpQuit ==
    /\ smtp.open /\ ~smtp.data_mode
    /\ smtp' = [smtp EXCEPT !.open = FALSE,
                            !.last = LineRead("QUIT", 0, NoSubdomain, 221)]
    /\ UNCHANGED <<smtp_cache_vars, beside_smtp>>

\* A line of the message; one that would pass MAX_MESSAGE_SIZE ends the
\* data mode with 552.
SmtpDataLine(line) ==
    /\ smtp.open /\ smtp.data_mode
    /\ smtp' = IF Len(smtp.email_data) + 1 > MAX_MESSAGE_SIZE
               THEN [smtp EXCEPT !.data_mode = FALSE, !.email_data = <<>>,
                                 !.last = LineRead("line", 0, NoSubdomain, 552)]
               ELSE [smtp EXCEPT !.email_data = Append(@, line),
                                 !.last = LineRead("line", 0, NoSubdomain, 0)]
    /\ UNCHANGED <<smtp_cache_vars, beside_smtp>>

\* The bytes of the observation log_smtp_request serialises.
SmtpPayloadSize(email_data) == 20

\* The session after the "." line, logged or not.
after_end_of_data(s, subdomain) ==
    [s EXCEPT !.data_mode = FALSE, !.subdomain = subdomain,
              !.email_data = <<>>]

\* The "." line: the subdomain is looked for in the headers when the
\* envelope gave none, the message is logged under it (rpush, the index
\* key, the bus message) and answered 250; an error of log_smtp_request
\* ends the connection.
SmtpEndOfData ==
    /\ smtp.open /\ smtp.data_mode
    /\ LET subdomain ==
               IF smtp.subdomain = NoSubdomain
               THEN first_extracted(extract_all_recipients(smtp.email_data))
               ELSE smtp.subdomain
       IN IF subdomain = NoSubdomain
          THEN /\ smtp' = [after_end_of_data(smtp, subdomain) EXCEPT
                             !.mail_since = FALSE, !.rcpt_since = FALSE,
                             !.last = LineRead(".", 0, NoSubdomain, 250)]
               /\ UNCHANGED smtp_cache_vars
          ELSE /\ next_id < MaxCaptures
               /\ LET id == RequestIds[next_id + 1]
                      payload == [id |-> id,
                                  len |-> SmtpPayloadSize(smtp.email_data)]
                      swept == maybe_evict_requests(cache)
                      r == rpush(cache, ListKey(subdomain), payload)
                      h1 == HistAfterSweep(hist, cache, swept)
                      key == IndexKey(subdomain, id)
                      value == to_string(saturating_sub(r.ret, 1))
                      w == set(r.cache, key, value)
                  IN /\ cache' = w.cache
                     /\ next_id' = next_id + 1
                     /\ last_sweep' = SweepRecord(last_sweep, cache, swept)
                     /\ hist' = [h1 EXCEPT ![subdomain].pushed = Append(@, payload),
                                           ![subdomain].rets = Append(@, r.ret)]
                     /\ written' = IF w.ok THEN MapInsert(written, key, value)
                                   ELSE written
                     /\ ws' = IF w.ok
                              THEN send(ws, CacheMessage("new_request", subdomain, id))
                              ELSE ws
                     /\ smtp' = IF w.ok
                                THEN [after_end_of_data(smtp, subdomain) EXCEPT
                                        !.mail_since = FALSE, !.rcpt_since = FALSE,
                                        !.last = LineRead(".", 1, subdomain, 250)]
                                ELSE [smtp EXCEPT
                                        !.open = FALSE, !.data_mode = FALSE,
                                        !.subdomain = subdomain,
                                        !.last = LineRead(".", 1, subdomain, 0)]
    /\ UNCHANGED beside_smtp

\* ------------------------------------------------------------ DNS server
\* DnsRequestHandler::handle_request.  A QNAME is its sequence of labels,
\* the root label "" last, as Name::to_string prints it with its final dot.

\* name.contains("test.") && name.contains(".example.com")
is_test_name(name) ==
    /\ \E i \in 1..Len(name) - 1 : name[i] = "test"
    /\ rfind(name, <<"example", "com">>) > 1

\* The tenant a query is logged under, or NoSubdomain.
subdomain_of_query(name) ==
    IF is_test_name(name) /\ Len(name) >= 3 THEN name[2]
    ELSE get_subdomain_from_hostname(name)

\* CONFIG.server_ip, the A record of a name without a custom record.
server_ip == <<"127.0.0.1">>

\* The answer section of handle_a_record, handle_aaaa_record,
\* handle_cname_record and handle_txt_record: the custom record stored for
\* the name, or the default of the type.
answers_of(c, query_type, name) ==
    LET custom_record == get(c, DnsRecordKey(query_type, name))
    IN IF custom_record # <<>> THEN <<custom_record[1]>>
       ELSE IF query_type = "A" THEN <<server_ip>>
       ELSE IF query_type = "TXT" THEN <<txt_record>>
       ELSE <<>>

\* The response code: every record handler rebuilds its header with NoError;
\* handle_default_response answers NXDomain.
rcode_of(query_type) ==
    IF query_type \in dns_record_types THEN "NoError" ELSE "NXDomain"

dns_peers == <<tcp, tls, acme, renewal, smtp, limiter, resolution, listing,
      derivation, supervisor, evictors, broker>>
beside_dns ==
    <<captures, set_calls, last_set, share_tokens, dns_calls, dns_done,
      last_reply, dns_peers>>

\* The names queries ask for: of a tenant, of a host below a tenant, the
\* apex, a foreign name, a foreign name that has the apex inside it, and a
\* "test." name.
QueryNames ==
    { <<"s1">> \o server_domain \o <<"">>,
      <<"www", "s2">> \o server_domain \o <<"">>,
      server_domain \o <<"">>,
      <<"evil", "org", "">>,
      <<"s1">> \o server_domain \o <<"evil", "org", "">>,
      <<"test", "s2">> \o server_domain \o <<"">> }

QueryTypes == dns_record_types \cup {"MX"}

\* A query without a tenant is answered by handle_default_response and
\* leaves no trace; any other is logged (rpush, the index key "0", the bus
\* message; an error of the log is only reported) and then answered by the
\* handler of its type.
HandleRequest(name, query_type) ==
    /\ LET subdomain == subdomain_of_query(name)
       IN IF subdomain = NoSubdomain
          THEN /\ dns' = [NoQuery EXCEPT !.called = TRUE, !.name = name,
                                         !.query_type = query_type,
                                         !.rcode = "NXDomain"]
               /\ UNCHANGED smtp_cache_vars
          ELSE /\ next_id < MaxCaptures
               /\ LET id == RequestIds[next_id + 1]
                      payload == [id |-> id, len |-> 20]
                      swept == maybe_evict_requests(cache)
                      r == rpush(cache, ListKey(subdomain), payload)
                      h1 == HistAfterSweep(hist, cache, swept)
                      key == IndexKey(subdomain, id)
                      value == to_string(capture_index("dns", r.ret))
                      w == set(r.cache, key, value)
                  IN /\ cache' = w.cache
                     /\ next_id' = next_id + 1
                     /\ last_sweep' = SweepRecord(last_sweep, cache, swept)
                     /\ hist' = [h1 EXCEPT ![subdomain].pushed = Append(@, payload),
                                           ![subdomain].rets = Append(@, r.ret)]
                     /\ written' = IF w.ok THEN MapInsert(written, key, value)
                                   ELSE written
                     /\ ws' = IF w.ok
                              THEN send(ws, CacheMessage("new_request", subdomain, id))
                              ELSE ws
                     /\ dns' = [called |-> TRUE, name |-> name,
                                query_type |-> query_type,
                                rcode |-> rcode_of(query_type),
                                answers |-> IF query_type \in dns_record_types
                                            THEN answers_of(w.cache, query_type, name)
                                            ELSE <<>>,
                                uid |-> subdomain, pushed |-> TRUE,
                                indexed |-> w.ok, sent |-> w.ok]
    /\ UNCHANGED <<smtp, beside_dns>>

\* ----------------------------------------------------------- rate limiter
\* check_rate_limit reads the counter of the client's address, decides, and
\* writes the counter back; the read and the write are separate awaits on
\* the cache, so that calls of concurrent requests interleave between them.

RateKey(client_ip) == << <<"ratelimit">>, <<"session">>, <<client_ip>> >>

\* format!("{new_count}:{new_reset}")
format_counter(count, reset) == to_string(count) \o <<":">> \o to_string(reset)

\* str::parse().unwrap_or(0)
parse_or_zero(str) == IF parse_isize(str) = -1 THEN 0 ELSE parse_isize(str)

\* The (count, last_reset) check_rate_limit reads: the stored "count:timestamp"
\* split at its one colon, (0, now) for a missing or malformed value.
read_counter(c, client_ip, now) ==
    LET found == get(c, RateKey(client_ip))
        data == IF found = <<>> THEN <<>> ELSE found[1]
        colons == {i \in 1..Len(data) : data[i] = ":"}
    IN IF found = <<>> \/ Cardinality(colons) # 1
       THEN [count |-> 0, last_reset |-> now]
       ELSE LET at == CHOOSE i \in colons : TRUE
            IN [count |-> parse_or_zero(SubSeq(data, 1, at - 1)),
                last_reset |-> parse_or_zero(SubSeq(data, at + 1, Len(data)))]

\* The counter a call writes back: a new window once the old one has passed.
next_counter(count, last_reset, now) ==
    IF last_reset < now - session_rate_window_secs
    THEN [count |-> 1, reset |-> now]
    ELSE [count |-> count + 1, reset |-> last_reset]

limiter_peers == <<tcp, tls, acme, renewal, smtp, dns, resolution, listing,
      derivation, supervisor, evictors, broker>>
beside_limiter ==
    <<next_id, captures, set_calls, last_set, last_sweep, hist, share_tokens,
      ws, dns_calls, dns_done, last_reply, limiter_peers>>

\* One second passes.
Tick ==
    /\ limiter.now < MaxTime
    /\ limiter' = [limiter EXCEPT !.now = @ + 1]
    /\ UNCHANGED <<cache, written, beside_limiter>>

\* check_rate_limit up to the end of its cache.get: the time and the counter
\* the call goes on with.
RateLimitGet(client_ip) ==
    /\ limiter.issued < MaxRateRequests
    /\ Cardinality(limiter.calls) < MaxRateCalls
    /\ LET read == read_counter(cache, client_ip, limiter.now)
       IN limiter' = [limiter EXCEPT
                        !.issued = @ + 1,
                        !.calls = @ \cup {[n |-> limiter.issued + 1,
                                           client_ip |-> client_ip,
                                           now |-> limiter.now,
                                           count |-> read.count,
                                           last_reset |-> read.last_reset]}]
    /\ UNCHANGED <<cache, written, beside_limiter>>

\* The rest of the call: 429 over the limit, else the counter is written
\* (let _ =: a refused write passes all the same) and the request passes.
RateLimitDecide(call) ==
    /\ call \in limiter.calls
    /\ LET new == next_counter(call.count, call.last_reset, call.now)
           key == RateKey(call.client_ip)
           value == format_counter(new.count, new.reset)
           w == set(cache, key, value)
       IN IF session_rate_limit # 0 /\ new.count > session_rate_limit
          THEN /\ limiter' = [limiter EXCEPT
                                !.calls = @ \ {call},
                                !.rejected[call.client_ip] = Append(@, call.now)]
               /\ UNCHANGED <<cache, written>>
          ELSE /\ limiter' = [limiter EXCEPT
                                !.calls = @ \ {call},
                                !.passed[call.client_ip] = Append(@, call.now)]
               /\ cache' = w.cache
               /\ written' = IF w.ok THEN MapInsert(written, key, value)
                             ELSE written
    /\ UNCHANGED beside_limiter

\* ------------------------------------------------------- file resolution
\* resolve_file_path.  A path and a key of the tree are strings, modelled as
\* sequences of symbols: "/" and names without a slash; an entry of the tree
\* is known by its key, the tree by the set of its keys.

index_html == <<"index.html">>

RECURSIVE trim_start(_)
trim_start(path) ==
    IF path # <<>> /\ Head(path) = "/" THEN trim_start(Tail(path)) ELSE path

RECURSIVE trim_end(_)
trim_end(path) ==
    IF path # <<>> /\ path[Len(path)] = "/"
    THEN trim_end(SubSeq(path, 1, Len(path) - 1))
    ELSE path

\* str::split('/'): the pieces between the slashes, empty ones included.
RECURSIVE split(_)
split(path) ==
    IF \A i \in 1..Len(path) : path[i] # "/" THEN <<path>>
    ELSE LET at == CHOOSE i \in 1..Len(path) :
                      path[i] = "/" /\ \A j \in 1..(i - 1) : path[j] # "/"
         IN <<SubSeq(path, 1, at - 1)>> \o split(SubSeq(path, at + 1, Len(path)))

\* [&str]::join("/")
RECURSIVE join(_)
join(parts) ==
    IF parts = <<>> THEN <<>>
    ELSE IF Len(parts) = 1 THEN parts[1]
    ELSE parts[1] \o <<"/">> \o join(Tail(parts))

\* files.get(key)
files_get(files, key) == IF key \in files THEN key ELSE NoFile

parent_index(parts, i) ==
    IF i = 0 THEN index_html
    ELSE join(SubSeq(parts, 1, i)) \o <<"/">> \o index_html

\* A walk that begins at the root and goes down.
RECURSIVE walk_up_from_root(_, _, _)
walk_up_from_root(files, parts, i) ==
    LET level == (Len(parts) - 1) - i
    IN IF i < 0 THEN files_get(files, index_html)
       ELSE IF files_get(files, parent_index(parts, level)) # NoFile
       THEN files_get(files, parent_index(parts, level))
       ELSE walk_up_from_root(files, parts, i - 1)

\* for i in (0..parts.len()).rev(), from level i down, and the final
\* fallback after it.
RECURSIVE walk_up(_, _, _)
walk_up(files, parts, i) ==
    IF i < 0 THEN files_get(files, index_html)
    ELSE IF files_get(files, parent_index(parts, i)) # NoFile
    THEN files_get(files, parent_index(parts, i))
    ELSE walk_up(files, parts, i - 1)

resolve_file_path(files, raw_path) ==
    LET path == trim_end(trim_start(raw_path))
        dir_index == path \o <<"/">> \o index_html
        parts == split(path)
    IN IF path = <<>> THEN files_get(files, index_html)
       ELSE IF files_get(files, path) # NoFile THEN files_get(files, path)
       ELSE IF files_get(files, dir_index) # NoFile
       THEN files_get(files, dir_index)
       ELSE walk_up(files, parts, Len(parts) - 1)

\* The keys a tree may hold and the paths requests ask for.
TreeKeys ==
    { index_html, <<"a">>, <<"a", "/", "index.html">>, <<"a", "/", "b">>,
      <<"a", "/", "b", "/", "index.html">>, <<"a", "/", "/", "index.html">>,
      <<"c", "/", "index.html">> }

RequestPaths ==
    { <<>>, <<"/">>, <<"/", "a">>, <<"a", "/">>, <<"/", "a", "/", "b">>,
      <<"a", "/", "b", "/", "c">>, <<"a", "/", "/", "b">>, <<"index.html">>,
      <<"/", "/", "a", "/", "index.html", "/">>, <<"c", "/", "d">>, <<"d">> }

beside_resolution ==
    <<cache, next_id, captures, set_calls, last_set, last_sweep, hist, written,
      share_tokens, ws, dns_calls, dns_done, last_reply, tcp, tls, acme,
      renewal, smtp, dns, limiter, listing, derivation, supervisor, evictors,
      broker>>

ResolveFilePath(files, path) ==
    /\ resolution' = [called |-> TRUE, files |-> files, path |-> path,
                      found |-> resolve_file_path(files, path)]
    /\ UNCHANGED beside_resolution

\* ------------------------------------------------------- request listing
\* GET /api/v2/requests. limit and offset are usize query parameters; the
\* sums of the handler are usize sums, which panic in a build with overflow
\* checks and wrap in one without.

\* Pagination constants.
MAX_LIMIT == 1000
DEFAULT_LIMIT == 100

\* Option::unwrap_or
unwrap_or(option, default) == IF option = <<>> THEN default ELSE option[1]

\* `x as isize` for a usize x: two's complement reinterpretation.
as_isize(x) == IF x >= UsizeModulus \div 2 THEN x - UsizeModulus ELSE x

\* The entries the filter keeps: those that are not the empty object.
non_empty_objects(list) == SelectSeq(list, LAMBDA v : v # Tombstone)

\* list_requests past the token check; overflow_checks is the build's
\* setting. A panic unwinds the handler: no reply is written.
list_requests(c, subdomain, limit_param, offset_param, overflow_checks) ==
    LET key == ListKey(subdomain)
        total_raw == llen(c, key)
        limit == Min(unwrap_or(limit_param, DEFAULT_LIMIT), MAX_LIMIT)
        offset == unwrap_or(offset_param, 0)
        sum == offset + limit
        panics == overflow_checks /\ (sum >= UsizeModulus \/ sum = 0)
        stop == wrapping_sub(wrapping_add(offset, limit), 1)
        requests == non_empty_objects(
                        lrange(c, key, as_isize(offset), as_isize(stop)))
        has_more == wrapping_add(offset, limit) < total_raw
    IN IF panics THEN [status |-> 500]
       ELSE [status |-> 200, requests |-> requests, total |-> total_raw,
             limit |-> limit, offset |-> offset, has_more |-> has_more]

\* The values of the limit and offset parameters.
LimitParams == {<<>>, <<0>>, <<1>>, <<MAX_LIMIT + 1>>}
OffsetParams == {<<>>, <<1>>, <<UsizeModulus - 1>>}

beside_listing ==
    <<cache, next_id, captures, set_calls, last_set, last_sweep, hist, written,
      share_tokens, ws, dns_calls, dns_done, last_reply, tcp, tls, acme,
      renewal, smtp, dns, limiter, resolution, derivation, supervisor,
      evictors, broker>>

\* llen and lrange are two read-lock sections of one handler; the routes of
\* NextList run one request at a time, so nothing comes between them.
ListRequests(token, limit_param, offset_param) ==
    /\ \E overflow_checks \in BOOLEAN :
          listing' =
            [called |-> TRUE, token |-> token, limit |-> limit_param,
             offset |-> offset_param,
             items |-> IF verify_jwt(token) = NoSubdomain THEN <<>>
                       ELSE Items(cache, verify_jwt(token)),
             reply |-> IF verify_jwt(token) = NoSubdomain
                       THEN [status |-> 401]
                       ELSE list_requests(cache, verify_jwt(token),
                                          limit_param, offset_param,
                                          overflow_checks)]
    /\ UNCHANGED beside_listing

\* ----------------------------------------------------- tenant derivation
\* get_subdomain_from_hostname on the host names a client can send (a Host
\* header, the host of a mail address): any labels, in any order.

HostLabels == {"s1", "xs1", "example", "EXAMPLE", "com", "evil"}

HostNames ==
    UNION {[1..n -> HostLabels] : n \in 1..MaxHostLabels}

beside_derivation ==
    <<cache, next_id, captures, set_calls, last_set, last_sweep, hist, written,
      share_tokens, ws, dns_calls, dns_done, last_reply, tcp, tls, acme,
      renewal, smtp, dns, limiter, resolution, listing, supervisor, evictors,
      broker>>

GetSubdomainFromHostname(host) ==
    /\ derivation' = [called |-> TRUE, host |-> host,
                      subdomain |-> get_subdomain_from_hostname(host)]
    /\ UNCHANGED beside_derivation

\* ------------------------------------------------------------ supervisor
\* run() spawns one task per server, waits in select! for SIGINT, SIGTERM or
\* the end of every server task, sends on the shutdown channel and returns;
\* main then returns and the runtime is dropped.  A unit of work is one
\* connection or request a server handles in a task of its own.

\* The receivers of the shutdown channel: broadcast::channel's receiver half
\* is dropped where the channel is made, and shutdown_tx.subscribe() is
\* called nowhere.
shutdown_receivers == {}

beside_supervisor ==
    <<cache, next_id, captures, set_calls, last_set, last_sweep, hist, written,
      share_tokens, ws, dns_calls, dns_done, last_reply, tcp, tls, acme,
      renewal, smtp, dns, limiter, resolution, listing, derivation, evictors,
      broker>>

\* Server::run binds its socket, or returns the error of the bind.
ListenerBind(l, ok) ==
    /\ supervisor.pc # "terminated"
    /\ supervisor.listeners[l] = "starting"
    /\ supervisor' = [supervisor EXCEPT
          !.listeners[l] = IF ok THEN "accepting" ELSE "exited"]
    /\ UNCHANGED beside_supervisor

\* One pass of an accept loop: the unit is handed to a spawned task.
ListenerAccept(l) ==
    /\ supervisor.pc # "terminated"
    /\ supervisor.listeners[l] = "accepting"
    /\ Len(supervisor.units) < MaxUnits
    /\ supervisor' = [supervisor EXCEPT
          !.units = Append(@, [listener |-> l, state |-> "working",
                               accepted_in |-> supervisor.pc])]
    /\ UNCHANGED beside_supervisor

\* A handler task runs to its end.
UnitFinish(i) ==
    /\ supervisor.pc # "terminated"
    /\ supervisor.units[i].state = "working"
    /\ supervisor' = [supervisor EXCEPT !.units[i].state = "finished"]
    /\ UNCHANGED beside_supervisor

\* The ctrl_c or SIGTERM arm of select!.
Signal ==
    /\ supervisor.pc = "serving"
    /\ supervisor' = [supervisor EXCEPT !.pc = "stopping", !.signalled = TRUE]
    /\ UNCHANGED beside_supervisor

\* The third arm of select!: every server task has ended.
ServersExited ==
    /\ supervisor.pc = "serving"
    /\ \A l \in Listeners : supervisor.listeners[l] = "exited"
    /\ supervisor' = [supervisor EXCEPT !.pc = "stopping"]
    /\ UNCHANGED beside_supervisor

\* let _ = shutdown_tx.send(()): every receiver gets the value; with none
\* the send is an error, which is discarded.  run() returns Ok.
ShutdownSend ==
    /\ supervisor.pc = "stopping"
    /\ supervisor' = [supervisor EXCEPT
          !.pc = "returned", !.delivered = shutdown_receivers]
    /\ UNCHANGED beside_supervisor

\* main returns: the runtime is dropped, and with it every task that has not
\* completed, at the await it is suspended at.
RuntimeDrop ==
    /\ supervisor.pc = "returned"
    /\ supervisor' = [supervisor EXCEPT
          !.pc = "terminated",
          !.listeners = [l \in Listeners |->
              IF @[l] = "exited" THEN "exited" ELSE "dropped"],
          !.units = [i \in DOMAIN @ |->
              IF @[i].state = "working"
              THEN [@[i] EXCEPT !.state = "dropped"] ELSE @[i]]]
    /\ UNCHANGED beside_supervisor

\* ------------------------------------------------------ memory counters
\* The Cache API under arbitrary callers, with maybe_evict_requests in its
\* steps: the load of current_memory, the write-lock section of
\* evict_oldest_requests, and the fetch_sub that follows the release of the
\* lock.  An rpush goes through them before its own write-lock section.

beside_evictors ==
    <<captures, set_calls, last_set, last_sweep, written, share_tokens, ws,
      dns_calls, dns_done, last_reply, tcp, tls, acme, renewal, smtp, dns,
      limiter, resolution, listing, derivation, supervisor, broker>>

\* maybe_evict_requests up to its decision.
EvictLoad(e) ==
    /\ evictors[e].pc = "idle"
    /\ e = "cleanup" => cache.current_memory > EvictionThreshold
    /\ e = "rpush" => next_id < MaxCaptures
    /\ evictors' = [evictors EXCEPT ![e] =
          IF cache.current_memory > EvictionThreshold
          THEN [EvictorIdle EXCEPT
                  !.pc = "evict",
                  !.bytes_to_free =
                      (cache.current_memory - EvictionThreshold)
                        + (max_memory \div 10)]
          ELSE [EvictorIdle EXCEPT !.pc = "push"]]
    /\ UNCHANGED <<cache, next_id, hist, beside_evictors>>

\* The write-lock section of evict_oldest_requests.
EvictPop(e) ==
    /\ evictors[e].pc = "evict"
    /\ LET st == EvictLoop([store |-> cache.request_store, freed |-> 0,
                            evicted_count |-> 0, empty_lists |-> <<>>,
                            made_progress |-> FALSE],
                           evictors[e].bytes_to_free)
       IN /\ cache' = [cache EXCEPT
                !.request_store = RemoveLists(st.store, st.empty_lists)]
          /\ evictors' = [evictors EXCEPT ![e] =
                [@ EXCEPT !.pc = "subtract", !.freed = st.freed,
                          !.evicted_count = st.evicted_count]]
          /\ hist' = HistAfterSweep(hist, cache, cache')
    /\ UNCHANGED <<next_id, beside_evictors>>

\* if evicted_count > 0 { current_memory.fetch_sub(freed) }
EvictSubtract(e) ==
    /\ evictors[e].pc = "subtract"
    /\ cache' = [cache EXCEPT
          !.current_memory = IF evictors[e].evicted_count > 0
                             THEN wrapping_sub(@, evictors[e].freed) ELSE @]
    /\ evictors' = [evictors EXCEPT ![e] =
          [EvictorIdle EXCEPT !.pc = IF e = "rpush" THEN "push" ELSE "idle"]]
    /\ UNCHANGED <<next_id, hist, beside_evictors>>

\* The write-lock section of rpush.
RpushPush(sub, size) ==
    /\ evictors["rpush"].pc = "push"
    /\ LET payload == [id |-> RequestIds[next_id + 1], len |-> size]
           r == rpush_locked(cache, ListKey(sub), payload)
       IN /\ cache' = r.cache
          /\ hist' = [hist EXCEPT ![sub].pushed = Append(@, payload),
                                  ![sub].rets = Append(@, r.ret)]
    /\ next_id' = next_id + 1
    /\ evictors' = [evictors EXCEPT !["rpush"] = EvictorIdle]
    /\ UNCHANGED beside_evictors

\* Cache::lset with the tombstone, as delete_request calls it.
Lset(sub, index) ==
    /\ lset(cache, ListKey(sub), index, Tombstone).ok
    /\ Items(cache, sub)[index + 1] # Tombstone
    /\ cache' = lset(cache, ListKey(sub), index, Tombstone).cache
    /\ hist' = [hist EXCEPT ![sub].clean = FALSE]
    /\ UNCHANGED <<next_id, evictors, beside_evictors>>

\* Cache::delete on a request list, as delete_all_requests calls it.
DeleteList(sub) ==
    /\ StoreIndex(cache.request_store, ListKey(sub)) # 0
    /\ cache' = delete(cache, ListKey(sub)).cache
    /\ hist' = [hist EXCEPT ![sub] = FreshHist]
    /\ UNCHANGED <<next_id, evictors, beside_evictors>>

\* ---------------------------------------------------------- port broker
\* The loop of start_port_allocation_service: it receives the
\* allocate_tcp_port and release_tcp_port messages of the bus one after the
\* other.  `listeners` are the ports held by the accept tasks that
\* start_port_listener has spawned; no code path ends such a task.

beside_broker ==
    <<cache, next_id, captures, set_calls, last_set, last_sweep, hist,
      written, share_tokens, ws, dns_calls, dns_done, last_reply, tls, acme,
      renewal, smtp, dns, limiter, resolution, listing, derivation,
      supervisor, evictors>>

BrokerCommands == {"allocate_tcp_port", "release_tcp_port"}

\* release_port: both maps lose the subdomain's entry, if it has one.
release_port(allocations, allocated, subdomain) ==
    IF subdomain \in DOMAIN allocations
    THEN [port_allocations |-> MapRemove(allocations, subdomain),
          allocated_ports |-> remove_port(allocated, allocations[subdomain])]
    ELSE [port_allocations |-> allocations, allocated_ports |-> allocated]

\* TcpListener::bind(("0.0.0.0", port)): the address is in use while an
\* accept task of this process holds the port.
bind(listeners, port) ==
    port \notin listeners

\* A route publishes a message for the broker on the bus.
BrokerSend(cmd, subdomain) ==
    /\ broker.sent < MaxBrokerMessages
    /\ Len(broker.inbox) < MaxBrokerInbox
    /\ broker' = [broker EXCEPT
                    !.inbox = Append(@, [cmd |-> cmd, subdomain |-> subdomain]),
                    !.sent = @ + 1]
    /\ UNCHANGED <<tcp, beside_broker>>

\* One turn of the loop on Ok(message): allocate_port, start_port_listener
\* and the `?` on its result, or release_port.
BrokerReceive ==
    /\ broker.running
    /\ broker.inbox # <<>>
    /\ tcp.allocations_lock = Unlocked /\ tcp.allocated_lock = Unlocked
    /\ LET message == Head(broker.inbox)
           subdomain == message.subdomain
           took == [broker EXCEPT !.inbox = Tail(@)]
       IN IF message.cmd = "allocate_tcp_port"
          THEN LET r == allocate_port(tcp.port_allocations,
                                      tcp.allocated_ports, subdomain)
                   back == release_port(r.port_allocations,
                                        r.allocated_ports, subdomain)
               IN IF r.port = NoPort
                  THEN /\ broker' = [took EXCEPT !.outcome = "no_port"]
                       /\ tcp' = tcp
                  ELSE IF bind(broker.listeners, r.port)
                  THEN /\ broker' =
                            [took EXCEPT
                               !.listeners = @ \cup {r.port},
                               !.outcome = "tcp_port_allocated"]
                       /\ tcp' = [tcp EXCEPT
                                    !.port_allocations = r.port_allocations,
                                    !.allocated_ports = r.allocated_ports]
                  ELSE /\ broker' =
                            [took EXCEPT
                               !.running = FALSE,
                               !.outcome = "bind_failed",
                               !.rebound =
                                   subdomain \notin
                                       DOMAIN tcp.port_allocations]
                       /\ tcp' = [tcp EXCEPT
                                    !.port_allocations = back.port_allocations,
                                    !.allocated_ports = back.allocated_ports]
          ELSE LET r == release_port(tcp.port_allocations,
                                     tcp.allocated_ports, subdomain)
               IN /\ broker' = [took EXCEPT !.outcome = "released"]
                  /\ tcp' = [tcp EXCEPT
                               !.port_allocations = r.port_allocations,
                               !.allocated_ports = r.allocated_ports]
    /\ UNCHANGED beside_broker

\* -------------------------------------------------------- specifications

Capture ==
    \/ \E kind \in CaptureKinds, sub \in Tenants, size \in PayloadSizes :
          CaptureStart(kind, sub, size)
    \/ \E task \in captures : CaptureIndex(task)
    \/ \E task \in captures : CapturePublish(task)
    \/ \E task \in captures : CaptureServe(task)

\* The capture plane: the four listeners and the cleanup task.
Next ==
    \/ Capture
    \/ Cleanup

Spec == Init /\ [][Next]_vars

\* The KV plane: concurrent writers of the tenant-owned keys.
NextKv ==
    \/ \E key \in TenantKeys, value \in KvValues : SetBegin(key, value)
    \/ \E call \in set_calls : SetFinish(call)
    \/ \E key \in TenantKeys : Delete(key)

SpecKv == Init /\ [][NextKv]_vars

\* The token-guarded routes: one HTTP capture at a time, sharing, and the
\* destructive routes called with whatever token the caller holds.
NextAuth ==
    \/ /\ captures = {}
       /\ \E sub \in Tenants : CaptureStart("http", sub, 20)
    \/ \E task \in captures : CaptureIndex(task)
    \/ \E task \in captures : CapturePublish(task)
    \/ \E task \in captures : CaptureServe(task)
    \/ \E token \in SessionTokens, id \in IssuedIds : ShareRequest(token, id)
    \/ \E token \in SessionTokens \cup ForgedTokens \cup share_tokens,
          id \in IssuedIds : DeleteRequest(token, id)
    \/ \E token \in SessionTokens \cup ForgedTokens \cup share_tokens :
          DeleteAll(token)

SpecAuth == Init /\ [][NextAuth]_vars

\* The fan-out plane: one WebSocket client and one capture at a time.
NextWs ==
    \/ /\ captures = {}
       /\ \E kind \in {"http", "dns"}, sub \in Tenants :
             CaptureStart(kind, sub, 20)
    \/ \E task \in captures : CaptureIndex(task)
    \/ \E task \in captures : CapturePublish(task)
    \/ \E task \in captures : CaptureServe(task)
    \/ WsOpen
    \/ \E token \in SessionTokens \cup ForgedTokens : WsConnect(token)
    \/ WsSnapshot
    \/ WsForward
    \/ WsSend
    \/ \E sub \in Tenants : WsDisconnect(sub)

SpecWs == Init /\ [][NextWs]_vars

\* The tenant API plane: the file and DNS write routes.
NextApi ==
    \/ \E token \in SessionTokens, records \in RecordSets :
          UpdateDnsBegin(token, records)
    \/ \E call \in dns_calls : UpdateDnsPurge(call)
    \/ \E call \in dns_calls : UpdateDnsStore(call)
    \/ \E call \in dns_calls : UpdateDnsManifest(call)
    \/ \E token \in SessionTokens, tree \in FileTrees : UpdateFiles(token, tree)

SpecApi == Init /\ [][NextApi]_vars

\* The port allocation service with its callers on two threads.
NextTcp ==
    \/ \E th \in TcpThreads, subdomain \in TcpSubdomains :
          AllocateLockAllocations(th, subdomain)
    \/ \E th \in TcpThreads : AllocateLockAllocated(th)
    \/ \E th \in TcpThreads : AllocateBody(th)
    \/ \E th \in TcpThreads, subdomain \in TcpSubdomains :
          ReleaseLockAllocations(th, subdomain)
    \/ \E th \in TcpThreads : ReleaseRemoveAllocation(th)
    \/ \E th \in TcpThreads : ReleaseLockAllocated(th)
    \/ \E th \in TcpThreads : ReleaseRemoveAllocated(th)

SpecTcp == Init /\ [][NextTcp]_vars

\* The certificate manager reloading the two slots, possibly at once.
NextTls ==
    \/ \E chain_pem \in ChainPems, key_pem \in KeyPems :
          reload_domain(chain_pem, key_pem)
    \/ \E chain_pem \in ChainPems, key_pem \in KeyPems :
          reload_ip(chain_pem, key_pem)
    \/ \E slot \in {"domain", "ip"} : ReloadRebuild(slot)

SpecTls == Init /\ [][NextTls]_vars

\* The ACME client working through its orders.
NextAcme ==
    \/ \E authorizations \in AuthorizationSets :
          ProcessAllAuthorizations(authorizations)
    \/ AcmeSetTxt
    \/ AcmeWaitPropagation
    \/ AcmeWaitTimeout
    \/ AcmeSetChallengeReady
    \/ AcmeValidate
    \/ AcmeClearTxt

SpecAcme == Init /\ [][NextAcme]_vars

\* The two renewal tasks; each is a spawned task the runtime keeps
\* scheduling, and its sleeps and awaits return.
NextRenewal ==
    \/ \E task \in RenewalTasks : RenewalWake(task)
    \/ \E task \in RenewalTasks : CheckAndRenew(task)
    \/ \E task \in RenewalTasks : CreateAcmeClient(task)
    \/ \E task \in RenewalTasks : ObtainFailed(task)
    \/ \E task \in RenewalTasks, cert \in ObtainedCerts :
          ObtainSucceeded(task, cert[1], cert[2])
    \/ \E task \in RenewalTasks : RenewalRebuild(task)

SpecRenewal ==
    /\ Init
    /\ [][NextRenewal]_vars
    /\ \A task \in RenewalTasks : WF_vars(RenewalStep(task))

\* One SMTP connection at a time, each line a client can send.
SmtpCommands == {"HELO", "BOGUS"}

NextSmtp ==
    \/ SmtpAccept
    \/ \E command \in SmtpCommands : SmtpCommand(command)
    \/ \E well_formed \in BOOLEAN : SmtpMail(well_formed)
    \/ \E recipient \in Addresses : SmtpRcpt(recipient)
    \/ SmtpData
    \/ SmtpRset
    \/ SmtpQuit
    \/ \E line \in DataLines : SmtpDataLine(line)
    \/ SmtpEndOfData

SpecSmtp == Init /\ [][NextSmtp]_vars

\* The DNS server answering queries, with a WebSocket connection receiving
\* from the bus.
NextDns ==
    \/ \E name \in QueryNames, query_type \in QueryTypes :
          HandleRequest(name, query_type)
    \/ WsOpen

SpecDns == Init /\ [][NextDns]_vars

\* Session-creation requests of two addresses against the clock.
NextLimiter ==
    \/ Tick
    \/ \E client_ip \in ClientIps : RateLimitGet(client_ip)
    \/ \E call \in limiter.calls : RateLimitDecide(call)

SpecLimiter == Init /\ [][NextLimiter]_vars

\* The request routes of the session holders and the HTTP and DNS listeners,
\* one request or capture at a time.
NextDelete ==
    \/ /\ captures = {}
       /\ \E kind \in {"http", "dns"}, sub \in Tenants :
             CaptureStart(kind, sub, 20)
    \/ \E task \in captures : CaptureIndex(task)
    \/ \E task \in captures : CapturePublish(task)
    \/ \E task \in captures : CaptureServe(task)
    \/ /\ captures = {}
       /\ \E token \in SessionTokens, id \in IssuedIds :
             DeleteRequest(token, id)
    \/ /\ captures = {}
       /\ \E token \in SessionTokens : DeleteAll(token)

SpecDelete == Init /\ [][NextDelete]_vars

\* resolve_file_path over every tree and path of the bounds.
NextResolve ==
    \E files \in SUBSET TreeKeys, path \in RequestPaths :
        ResolveFilePath(files, path)

SpecResolve == Init /\ [][NextResolve]_vars

\* The request listing beside the HTTP listener and the single-request
\* deletion, one request at a time.
NextList ==
    \/ /\ captures = {}
       /\ next_id < MaxListed
       /\ \E sub \in Tenants : CaptureStart("http", sub, 20)
    \/ \E task \in captures : CaptureIndex(task)
    \/ \E task \in captures : CapturePublish(task)
    \/ \E task \in captures : CaptureServe(task)
    \/ /\ captures = {}
       /\ \E token \in SessionTokens, id \in IssuedIds :
             DeleteRequest(token, id)
    \/ /\ captures = {}
       /\ \E token \in SessionTokens \cup ForgedTokens,
             limit_param \in LimitParams, offset_param \in OffsetParams :
             ListRequests(token, limit_param, offset_param)

SpecList == Init /\ [][NextList]_vars

\* get_subdomain_from_hostname over every host name of the bounds.
NextHost == \E host \in HostNames : GetSubdomainFromHostname(host)

SpecHost == Init /\ [][NextHost]_vars

\* The supervisor with its server tasks and their units of work.
NextSupervisor ==
    \/ \E l \in Listeners, ok \in BOOLEAN : ListenerBind(l, ok)
    \/ \E l \in Listeners : ListenerAccept(l)
    \/ \E i \in DOMAIN supervisor.units : UnitFinish(i)
    \/ Signal
    \/ ServersExited
    \/ ShutdownSend
    \/ RuntimeDrop

SpecSupervisor == Init /\ [][NextSupervisor]_vars

\* The KV writes of SpecMemory: two values of different compressed sizes
\* under the keys of the tenants' file trees.
MemoryKeys == {FilesKey(s) : s \in Tenants}
MemoryValues == { <<"i", "a">>, <<"i", "a", "b", "a", "b">> }

\* Every operation that moves a memory counter, interleaved.
NextMemory ==
    \/ /\ set_calls = {}
       /\ \E key \in MemoryKeys, value \in MemoryValues : SetBegin(key, value)
    \/ \E call \in set_calls : SetFinish(call)
    \/ \E key \in MemoryKeys : Delete(key)
    \/ \E e \in Evictors : EvictLoad(e)
    \/ \E e \in Evictors : EvictPop(e)
    \/ \E e \in Evictors : EvictSubtract(e)
    \/ \E sub \in Tenants : RpushPush(sub, 30)
    \/ \E sub \in Tenants, index \in 0..(max_requests_per_session - 1) :
          Lset(sub, index)
    \/ \E sub \in Tenants : DeleteList(sub)

SpecMemory == Init /\ [][NextMemory]_vars

\* The write routes of two tenants, record domains of several labels
\* included.
NextQuota ==
    \/ \E token \in SessionTokens, records \in DottedRecordSets :
          UpdateDnsBegin(token, records)
    \/ \E call \in dns_calls : UpdateDnsPurge(call)
    \/ \E call \in dns_calls : UpdateDnsStore(call)
    \/ \E call \in dns_calls : UpdateDnsManifest(call)
    \/ \E token \in SessionTokens, tree \in FileTrees : UpdateFiles(token, tree)

SpecQuota == Init /\ [][NextQuota]_vars

\* The port broker and the routes that send it messages.
NextBroker ==
    \/ \E cmd \in BrokerCommands, subdomain \in TcpSubdomains :
          BrokerSend(cmd, subdomain)
    \/ BrokerReceive

SpecBroker == Init /\ [][NextBroker]_vars

\* Tenants replacing their trees, captures serving a file from them and
\* GET /api/v2/files.
NextFixtures ==
    \/ \E token \in SessionTokens, tree \in FixtureTrees :
          UpdateFiles(token, tree)
    \/ /\ captures = {}
       /\ next_id < MaxListed
       /\ \E sub \in Tenants : CaptureStart("http", sub, 20)
    \/ \E task \in captures : CaptureIndex(task)
    \/ \E task \in captures : CapturePublish(task)
    \/ \E task \in captures : CaptureServe(task)
    \/ \E token \in SessionTokens : GetFiles(token)

SpecFixtures == Init /\ [][NextFixtures]_vars

\* ----------------------------------------------------------- properties

IsSuffix(s, t) ==
    Len(s) <= Len(t) /\ s = SubSeq(t, Len(t) - Len(s) + 1, Len(t))

\* C1: after N pushes to a tenant with no deletion or eviction in between,
\* llen is min(N, max_requests_per_session), the list holds the most recent
\* that many payloads in insertion order, and the i-th push returned the
\* length of the list after it.
RpushKeepsMostRecent ==
    \A t \in Tenants :
        hist[t].clean =>
            LET pushed == hist[t].pushed
                n == Len(pushed)
                k == Min(n, max_requests_per_session)
            IN /\ llen(cache, ListKey(t)) = k
               /\ Items(cache, t) = SubSeq(pushed, n - k + 1, n)
               /\ \A i \in 1..n :
                     hist[t].rets[i] = Min(i, max_requests_per_session)

\* A tenant whose list rolled over: more pushes than the cap, nothing else.
RpushRolledOver ==
    \E t \in Tenants :
        hist[t].clean /\ Len(hist[t].pushed) > max_requests_per_session

\* C2: every index key request:<sub>:<id> present with value i names the
\* position of observation <id> in requests_range(requests:<sub>, 0, -1).
IndexKeysAgreeWithPositions ==
    \A t \in Tenants : \A n \in 1..Len(RequestIds) :
        LET found == get(cache, IndexKey(t, RequestIds[n]))
            requests == lrange(cache, ListKey(t), 0, -1)
            i == parse_isize(found[1])
        IN found # <<>> =>
              /\ 0 <= i /\ i < Len(requests)
              /\ requests[i + 1].id = RequestIds[n]

\* Number of entries the latest sweep popped from a tenant's list.
Popped(t) == Len(Items(last_sweep.before, t)) - Len(Items(last_sweep.after, t))

\* C3: an eviction sweep leaves the KV store and the per-tenant size map as
\* they were, and every request list afterwards is a suffix of what it was.
EvictionLeavesKvAlone ==
    last_sweep.ran =>
        /\ last_sweep.after.kv_store = last_sweep.before.kv_store
        /\ last_sweep.after.subdomain_sizes = last_sweep.before.subdomain_sizes
        /\ \A t \in Tenants :
              IsSuffix(Items(last_sweep.after, t), Items(last_sweep.before, t))

\* A sweep that popped an observation while KV entries were present, the
\* popped observation's index key among them.
EvictionWithKvPresent ==
    /\ last_sweep.ran
    /\ \E t \in Tenants :
          /\ Popped(t) > 0
          /\ IndexKey(t, Items(last_sweep.before, t)[1].id)
                \in DOMAIN last_sweep.before.kv_store
          /\ FilesKey(t) \in DOMAIN last_sweep.before.kv_store

\* C4: within one sweep, any two tenants whose lists stay non-empty lose
\* numbers of entries that differ by at most one.
EvictionIsFair ==
    last_sweep.ran =>
        \A t1, t2 \in Tenants :
            (Items(last_sweep.after, t1) # <<>>
               /\ Items(last_sweep.after, t2) # <<>>)
              => /\ Popped(t1) - Popped(t2) <= 1
                 /\ Popped(t2) - Popped(t1) <= 1

\* A sweep that popped from two tenants and emptied neither list.
EvictionAcrossTenants ==
    /\ last_sweep.ran
    /\ \A t \in Tenants :
          Popped(t) > 0 /\ Items(last_sweep.after, t) # <<>>

\* The tenant-owned keys present in the KV store that are charged to t.
OwnedKeys(c, t) ==
    {k \in DOMAIN c.kv_store : extract_subdomain_from_key(k) = t}

RECURSIVE SumSizes(_, _)
SumSizes(c, keys) ==
    IF keys = {} THEN 0
    ELSE LET k == CHOOSE x \in keys : TRUE
         IN c.kv_store[k].uncompressed_size + SumSizes(c, keys \ {k})

\* C5: for each tenant, the uncompressed sizes of its tenant-owned KV entries
\* add up to no more than max_subdomain_size_bytes, whatever the
\* interleaving of set and delete calls.
QuotaNeverExceeded ==
    \A t \in Tenants :
        SumSizes(cache, OwnedKeys(cache, t)) <= max_subdomain_size_bytes

\* C6: a set on a tenant-owned key is refused exactly when the usage after
\* the write (usage, less the size of the entry it replaces, plus the new
\* length) would be over the cap; so a replacement that is no larger than
\* the entry it replaces goes through.
QuotaRefusalIsExact ==
    last_set # NoSet =>
        (last_set.ok <=>
            (last_set.usage - last_set.old) + Len(last_set.value)
                <= max_subdomain_size_bytes)

\* C7: get(k) returns the value of the latest successful set(k, _), byte for
\* byte, until the next set or delete of k, and None once k is deleted.
GetReturnsLatestSet ==
    \A k \in TenantKeys :
        get(cache, k) = IF k \in DOMAIN written THEN <<written[k]>> ELSE <<>>

\* One key holds a value with a repeated character, and another key was
\* written by the latest set call and deleted since.
SetThenGetAndDelete ==
    /\ \E k \in DOMAIN written : written[k] = <<"i", "a", "a", "b">>
    /\ set_calls = {}
    /\ last_set # NoSet /\ last_set.ok
    /\ last_set.key \notin DOMAIN written

\* The standard inclusive range over a list: negative indices count from the
\* end, start is clamped to 0 and stop to n - 1.
StandardRange(items, start, stop) ==
    LET n == Len(items)
        first == Max(IF start < 0 THEN n + start ELSE start, 0)
        last == Min(IF stop < 0 THEN n + stop ELSE stop, n - 1)
    IN IF first <= last THEN SubSeq(items, first + 1, last + 1) ELSE <<>>

RangeArgs == (0 - (max_requests_per_session + 2))..(max_requests_per_session + 2)

\* C8: lrange returns the standard inclusive range for every list and all
\* start and stop, the empty list when the interval is empty (stop < -n and
\* start >= n included) or the list does not exist.
LrangeIsStandardRange ==
    \A t \in Tenants : \A start, stop \in RangeArgs :
        lrange(cache, ListKey(t), start, stop)
            = StandardRange(Items(cache, t), start, stop)

\* C9: no token share_request hands out is accepted as a session token.
ShareTokensOpenNoSession ==
    \A token \in share_tokens : verify_token_or_error(token) = NoSubdomain

\* The observations of t whose capture has published its new_request.
Published(t) ==
    {Items(cache, t)[i].id : i \in 1..Len(Items(cache, t))}
      \ {task.id : task \in {x \in captures : x.pc \in {"index", "publish"}}}

\* C10: once the client has connected, every observation of the tenant
\* reaches the socket exactly once: never in the history snapshot and as a
\* live event both, and, once the snapshot is sent and the bus is drained,
\* never in neither.
DeliveredExactlyOnce ==
    /\ ws.snapshot \cap ws.live = {}
    /\ (ws.open /\ ws.pc = "idle" /\ ws.rx = <<>> /\ ws.out = <<>>) =>
          \A t \in ws.sessions : Published(t) \subseteq ws.snapshot \cup ws.live

\* C11: a socket's subscription set starts empty and holds a subdomain only
\* if the socket presented a token that verifies to it and has not sent
\* disconnect for it since; and no bus event or history snapshot is sent to
\* the socket for a subdomain outside the set.
SubscriptionsGateDelivery ==
    /\ ~ws.open => ws.sessions = {}
    /\ \A t \in ws.sessions :
          /\ \E token \in ws.tokens : verify_jwt(token) = t
          /\ t \notin ws.left
    /\ ws.stray = {}

\* The per-record override keys dns:<TYPE>:<fqdn> present for tenant s.
OverrideKeys(c, s) ==
    {k \in DOMAIN c.kv_store :
        k[1] = <<"dns">> /\ Len(k) = 3 /\ extract_subdomain_from_key(k) = s}

\* What DNS lookups and GET /api/v2/dns see of tenant s.
Seen(c, s) ==
    [manifest |-> get_dns(c, s),
     overrides |-> {<<k, get(c, k)>> : k \in OverrideKeys(c, s)}]

\* What they see when exactly the record set `records` is in force.
ViewOf(records, s) ==
    [manifest |-> records,
     overrides |-> {<<store_key(records[i], s), << <<records[i].value>> >> >> :
                       i \in 1..Len(records)}]

\* C12: once a PUT /api/v2/dns of tenant s with record set R has completed,
\* the override keys of s are exactly those derived from R: the keys of
\* earlier PUTs that are not in R are gone.
RewritePurgesOldKeys ==
    \A s \in DOMAIN dns_done :
        (\A call \in dns_calls : call.sub # s) =>
            OverrideKeys(cache, s) =
                {store_key(dns_done[s][i], s) : i \in 1..Len(dns_done[s])}

\* C13: while a PUT /api/v2/dns is running, a lookup or GET sees the whole
\* old record set or the whole new one, with the override keys and the
\* manifest in agreement.
RewriteIsAtomic ==
    \A call \in dns_calls :
        LET old == IF call.sub \in DOMAIN dns_done
                   THEN dns_done[call.sub] ELSE <<>>
        IN Seen(cache, call.sub)
              \in {ViewOf(old, call.sub), ViewOf(call.records, call.sub)}

\* C14: a stored file tree always has its index.html entry.
TreeKeepsIndexHtml ==
    \A s \in Tenants :
        LET found == get(cache, FilesKey(s))
        IN found # <<>> => \E i \in 1..Len(found[1]) : found[1][i] = "i"

\* C15: a file or DNS write the store refused for quota is answered with
\* HTTP 400, never with success.
RefusedWriteAnswers400 ==
    last_reply.refused => last_reply.status = 400

\* C16: whenever no call holds the write lock of the tenant->port map, the
\* two port maps are mutually inverse (tenant->port maps t to p if and only
\* if port->tenant maps p to t), so no port has two tenants and no tenant two
\* ports, and every allocated port lies in
\* [tcp_port_range_start, tcp_port_range_end].
PortMapsMutuallyInverse ==
    tcp.allocations_lock = Unlocked =>
        /\ \A t \in DOMAIN tcp.port_allocations :
              /\ tcp.port_allocations[t] \in DOMAIN tcp.allocated_ports
              /\ tcp.allocated_ports[tcp.port_allocations[t]] = t
        /\ \A q \in DOMAIN tcp.allocated_ports :
              /\ tcp.allocated_ports[q] \in DOMAIN tcp.port_allocations
              /\ tcp.port_allocations[tcp.allocated_ports[q]] = q
              /\ tcp_port_range_start <= q /\ q <= tcp_port_range_end

\* A release took a port away while another tenant kept its own, and a
\* second call is running behind it.
PortReleasedBesideAnother ==
    /\ tcp.allocations_lock = Unlocked
    /\ tcp.last_release.called /\ tcp.last_release.port # NoPort
    /\ tcp.last_release.subdomain \notin DOMAIN tcp.port_allocations
    /\ tcp.port_allocations # <<>>
    /\ tcp.last_alloc.called

\* The ports of the range no tenant holds in the maps m.
FreePorts(m) ==
    {q \in tcp_port_range_start..tcp_port_range_end :
        q \notin DOMAIN m.allocated_ports}

\* C17: allocate_port(tenant) returns the tenant's port and changes nothing
\* when the tenant has one; otherwise it claims and returns the lowest free
\* port of the range; with no free port it fails and changes nothing.
AllocatePortIsReference ==
    tcp.last_alloc.called =>
        LET a == tcp.last_alloc
            t == a.subdomain
            free == FreePorts(a.before)
        IN IF t \in DOMAIN a.before.port_allocations
           THEN /\ a.port = a.before.port_allocations[t]
                /\ a.after = a.before
           ELSE IF free = {}
           THEN /\ a.port = NoPort
                /\ a.after = a.before
           ELSE /\ a.port \in free
                /\ \A q \in free : a.port <= q
                /\ a.after.port_allocations =
                       MapInsert(a.before.port_allocations, t, a.port)
                /\ a.after.allocated_ports =
                       MapInsert(a.before.allocated_ports, a.port, t)

\* The latest allocate_port found the whole range taken.
AllocateFoundRangeTaken ==
    /\ tcp.last_alloc.called
    /\ tcp.last_alloc.subdomain
           \notin DOMAIN tcp.last_alloc.before.port_allocations
    /\ FreePorts(tcp.last_alloc.before) = {}

\* C18: acceptor() is None in the initial state and as long as no reload has
\* succeeded, and Some in every state after a reload_domain or reload_ip has
\* succeeded; a later failed reload does not make it None again.
AcceptorFollowsFirstReload ==
    (acceptor(tls) = <<>>) <=> ~tls.succeeded

\* A reload failed after another one had succeeded.
ReloadFailedAfterSuccess ==
    /\ tls.succeeded
    /\ tls.last_reload.called /\ ~tls.last_reload.ok
    /\ acceptor(tls) # <<>>

\* The chain has no certificate or a broken block, or the key has no key
\* block, a broken block, or a body that is no signing key.
Unparsable(chain_pem, key_pem) ==
    \/ \A i \in 1..Len(chain_pem) : chain_pem[i].label # "CERTIFICATE"
    \/ \E i \in 1..Len(chain_pem) : chain_pem[i].label = "MALFORMED"
    \/ \A i \in 1..Len(key_pem) :
          \/ key_pem[i].label \notin
                 {"PRIVATE KEY", "RSA PRIVATE KEY", "EC PRIVATE KEY"}
          \/ key_pem[i].der \notin SigningKeys
    \/ \E i \in 1..Len(key_pem) : key_pem[i].label = "MALFORMED"

\* C19: a reload_domain / reload_ip with an unparsable chain or key returns
\* an error and leaves both slots and the config as they were; a reload_ip
\* leaves the domain slot as it was and a reload_domain the IP slot.
ReloadTouchesOnlyItsSlot ==
    tls.last_reload.called =>
        LET r == tls.last_reload
        IN /\ (r.phase = "store" /\ Unparsable(r.chain_pem, r.key_pem)) =>
                  (~r.ok /\ r.after = r.before)
           /\ r.slot = "ip" => r.after.domain_cert = r.before.domain_cert
           /\ r.slot = "domain" => r.after.ip_cert = r.before.ip_cert

\* A reload of the IP slot was refused for its key while the domain slot
\* and the config were in place.
BadReloadBesideLoadedSlot ==
    /\ tls.last_reload.called /\ ~tls.last_reload.ok
    /\ tls.last_reload.slot = "ip"
    /\ tls.last_reload.chain_pem # <<>>
    /\ tls.last_reload.before.domain_cert # NoCert
    /\ tls.last_reload.before.config # NoConfig

\* C20: every TXT value set_txt has stored at a challenge name since the
\* name's last clear_txt is served at that name: the two values of a
\* wildcard order coexist at _acme-challenge.<apex>.
TxtValuesCoexist ==
    \A name \in DOMAIN acme.txt_set :
        \A token \in acme.txt_set[name] :
            \E i \in 1..Len(handle_txt_record(cache, name)) :
                handle_txt_record(cache, name)[i] = <<token>>

\* C21: a challenge is marked ready (set_challenge_ready) only after, for
\* every pending TXT value of the order, both public resolvers have returned
\* the expected value; while some resolver has not, no challenge is ready.
ReadyOnlyAfterPropagation ==
    acme.ready # {} =>
        \A i \in 1..Len(acme.pending) :
            \A r \in resolvers :
                <<r, txt_domain(challenge_domain_of(acme.pending[i].identifier)),
                  acme.pending[i].token>> \in acme.confirmed

\* The first of the two challenges of an order has been marked ready, the
\* second is still to be notified.
FirstChallengeReady ==
    /\ Len(acme.pending) = 2
    /\ Cardinality(acme.ready) = 1
    /\ acme.notify # <<>>

\* C22: a check that failed (issuance after its three attempts included)
\* ends neither renewal loop and leaves the certificate of its TLS slot as it
\* was when the check began; each loop goes on to check again, forever.
FailedCheckIsContained ==
    /\ [](\A task \in RenewalTasks : renewal.task[task].pc # "ended")
    /\ []((renewal.last_check.called /\ ~renewal.last_check.ok) =>
              renewal.last_check.after = renewal.last_check.before)
    /\ \A task \in RenewalTasks : []<>(renewal.task[task].pc = "check")

\* An issuance failed on its third attempt while a certificate was loaded in
\* the slot.
ThirdAttemptFailedWithCertLoaded ==
    /\ renewal.last_check.called /\ ~renewal.last_check.ok
    /\ renewal.last_check.attempt = max_attempts
    /\ renewal.last_check.before # NoCert
    /\ tls.config # NoConfig

\* The tenant of a message, derived from its envelope recipients or else
\* from its To, Cc and Bcc headers.
TenantOfMessage(rcpt_to, email_data) ==
    first_extracted(rcpt_to \o extract_all_recipients(email_data))

\* C23: an SMTP session records an observation only on the "." line that
\* ends a message: exactly one when a tenant can be derived from an envelope
\* recipient or a To/Cc/Bcc header of that message, none otherwise (and the
\* message is answered 250 all the same); no other line records anything.
SmtpRecordsAtEndOfData ==
    smtp.last.called =>
        LET e == smtp.last
            end_of_data == e.data_mode /\ e.line = "."
            derivable == TenantOfMessage(e.rcpt_to, e.email_data) # NoSubdomain
        IN /\ e.recorded = 1 => end_of_data
           /\ end_of_data => e.recorded = (IF derivable THEN 1 ELSE 0)
           /\ (end_of_data /\ ~derivable) => e.reply = 250

\* C24: the "." line leaves the session idle, with the sender, the
\* recipients, the buffer and the derived tenant of the finished message
\* cleared: a DATA that follows without a new MAIL FROM and RCPT TO is
\* answered 503, and every message is recorded under the tenant of its own
\* recipients and headers.
EndOfDataResetsSession ==
    smtp.last.called =>
        LET e == smtp.last
        IN /\ (e.data_mode /\ e.line = "." /\ smtp.open) =>
                  /\ ~smtp.data_mode
                  /\ smtp.mail_from = NoAddress
                  /\ smtp.rcpt_to = <<>>
                  /\ smtp.email_data = <<>>
                  /\ smtp.subdomain = NoSubdomain
           /\ (e.line = "DATA" /\ ~(smtp.mail_since /\ smtp.rcpt_since)) =>
                  e.reply = 503
           /\ (e.data_mode /\ e.line = "." /\ e.recorded = 1) =>
                  e.uid = TenantOfMessage(e.rcpt_to, e.email_data)

\* A QNAME is within the apex when its labels end with the server domain.
WithinApex(name) ==
    LET n == Len(name) - 1
    IN /\ n >= Len(server_domain)
       /\ SubSeq(name, n - Len(server_domain) + 1, n) = server_domain

\* C25: a DNS query whose QNAME is not within the configured apex is
\* answered NXDOMAIN and logs nothing: it pushes on no request list, writes
\* no index key and sends no bus message.
OutsideApexIsNxdomain ==
    (dns.called /\ ~WithinApex(dns.name)) =>
        /\ dns.rcode = "NXDomain"
        /\ ~dns.pushed /\ ~dns.indexed /\ ~dns.sent

\* The requests of `client_ip` that passed the limiter with a timestamp in
\* the `session_rate_window_secs` seconds from `from` on.
PassedInSpan(client_ip, from) ==
    {i \in 1..Len(limiter.passed[client_ip]) :
        /\ limiter.passed[client_ip][i] >= from
        /\ limiter.passed[client_ip][i] < from + session_rate_window_secs}

\* C26: of the session-creation requests one address issues within any span
\* of session_rate_window_secs seconds, at most session_rate_limit pass the
\* limiter, whether the requests are handled one after another or
\* concurrently.
AtMostLimitPassPerWindow ==
    \A client_ip \in ClientIps : \A from \in 0..MaxTime :
        Cardinality(PassedInSpan(client_ip, from)) <= session_rate_limit

\* The positions of the live entries of tenant `sub` with id `id`.
LivePositions(c, sub, id) ==
    {i \in 1..Len(Items(c, sub)) :
        Items(c, sub)[i] # Tombstone /\ Items(c, sub)[i].id = id}

\* C27: DELETE /api/v2/requests/:id, run while no capture is between its
\* steps, replaces by the tombstone exactly the entry of the caller's list
\* whose id is :id and removes its index key; every other entry keeps its
\* content and position, the length of the list and the lists of the other
\* tenants stay as they were; with no live entry of that id nothing changes.
DeleteTombstonesExactlyItsEntry ==
    [][\A token \in SessionTokens : \A id \in IssuedIds :
          (captures = {} /\ DeleteRequest(token, id)) =>
              LET sub == verify_token_or_error(token)
                  before == Items(cache, sub)
                  after == Items(cache', sub)
                  live == LivePositions(cache, sub, id)
              IN IF live = {} THEN cache' = cache
                 ELSE /\ Len(after) = Len(before)
                      /\ \A i \in 1..Len(before) :
                            after[i] = IF i \in live THEN Tombstone
                                       ELSE before[i]
                      /\ IndexKey(sub, id) \notin DOMAIN cache'.kv_store
                      /\ \A t \in Tenants \ {sub} :
                            Items(cache', t) = Items(cache, t)]_vars

\* C28: once DELETE /api/v2/requests of tenant s has run (no capture being
\* between its steps), the list of s is empty and no index key
\* request:<s>:<id> is left in the store.
DeleteAllLeavesNothing ==
    [][\A token \in SessionTokens :
          (captures = {} /\ DeleteAll(token)) =>
              LET sub == verify_token_or_error(token)
              IN /\ llen(cache', ListKey(sub)) = 0
                 /\ \A i \in 1..Len(RequestIds) :
                       IndexKey(sub, RequestIds[i]) \notin DOMAIN cache'.kv_store]_vars

\* The path without the slashes at its ends.
Trimmed(path) ==
    LET inner == {i \in 1..Len(path) : path[i] # "/"}
    IN IF inner = {} THEN <<>>
       ELSE SubSeq(path, CHOOSE i \in inner : \A j \in inner : i <= j,
                         CHOOSE i \in inner : \A j \in inner : j <= i)

\* The candidates of the cascade with their ranks, the first to try ranked
\* highest: the path itself, its directory index, the index of each
\* ancestor directory (the longer the ancestor the earlier), the root index.
Candidates(path) ==
    LET p == Trimmed(path)
    IN IF p = <<>> THEN {<<1, index_html>>}
       ELSE {<<2 * Len(p) + 2, p>>, <<2 * Len(p) + 1, p \o <<"/">> \o index_html>>}
              \cup {<<k, SubSeq(p, 1, k - 1) \o <<"/">> \o index_html>> :
                       k \in {i \in 1..Len(p) : p[i] = "/"}}
              \cup {<<0, index_html>>}

FirstPresent(files, candidates) ==
    LET present == {c \in candidates : c[2] \in files}
    IN IF present = {} THEN NoFile
       ELSE (CHOOSE c \in present : \A d \in present : d[1] <= c[1])[2]

\* C29: resolve_file_path returns the first candidate of the cascade that is
\* in the tree: the trimmed path (index.html when it is empty), then
\* <path>/index.html, then the index.html of each ancestor directory from
\* the deepest to the root; a tree with index.html always resolves.
ResolutionFollowsCascade ==
    resolution.called =>
        /\ resolution.found =
               FirstPresent(resolution.files, Candidates(resolution.path))
        /\ index_html \in resolution.files => resolution.found # NoFile

\* A path two levels down, with no entry of its own, resolved to the index
\* of its grandparent directory although the root index exists.
ResolvedToAncestorIndex ==
    /\ resolution.called
    /\ resolution.path = <<"a", "/", "b", "/", "c">>
    /\ index_html \in resolution.files
    /\ resolution.found = <<"a", "/", "index.html">>

\* C30: under every interleaving of set and delete calls, whenever no call
\* holds the write lock of the KV store, the size map entry of a tenant
\* equals the sum of the uncompressed sizes of the KV entries the tenant
\* owns: a replaced entry's size is taken off and the new one added.
SizeMapMatchesEntries ==
    \A t \in Tenants :
        get_subdomain_size(cache, t) = SumSizes(cache, OwnedKeys(cache, t))

\* A set has replaced an entry the tenant already had, beside another entry
\* of the same tenant.
ReplacedEntryCounted ==
    /\ last_set.ok /\ last_set.old > 0 /\ set_calls = {}
    /\ last_set.key \in DOMAIN cache.kv_store
    /\ GzDecode(cache.kv_store[last_set.key].data) = last_set.value
    /\ Cardinality(OwnedKeys(cache, extract_subdomain_from_key(last_set.key))) > 1

\* The entries at list positions first .. first + count - 1, tombstones left
\* out.
PageOf(items, first, count) ==
    non_empty_objects(
        [i \in 1..Max(0, Min(count, Len(items) - first)) |-> items[first + i]])

\* C31: a listing with limit L (default 100, capped at 1000) and offset O
\* answers 200 with the non-tombstone entries of positions O .. O+L-1, at
\* most L of them, and has_more = (O + L < total), whatever L and O are.
ListingIsPage ==
    (listing.called /\ verify_jwt(listing.token) # NoSubdomain) =>
        LET L == Min(unwrap_or(listing.limit, DEFAULT_LIMIT), MAX_LIMIT)
            O == unwrap_or(listing.offset, 0)
        IN /\ listing.reply.status = 200
           /\ listing.reply.requests = PageOf(listing.items, O, L)
           /\ Len(listing.reply.requests) <= L
           /\ listing.reply.has_more = (O + L < Len(listing.items))

\* The complete label right before the apex when the name lies within the
\* apex and that label is a valid subdomain; NoSubdomain otherwise. Names
\* compare without regard to case.
LabelBeforeApex(host) ==
    LET name == [i \in 1..Len(host) |-> to_lowercase(host[i])]
        k == Len(name) - Len(server_domain)
    IN IF /\ k >= 1
          /\ SubSeq(name, k + 1, Len(name)) = server_domain
          /\ verify_subdomain(name[k])
       THEN name[k]
       ELSE NoSubdomain

\* C32: tenant derivation returns a subdomain only if the host name lies
\* within the apex and the subdomain is the complete label right before the
\* apex; outside the apex, or with another label there, it returns none.
DerivationIsLabelBeforeApex ==
    (derivation.called /\ derivation.subdomain # NoSubdomain) =>
        derivation.subdomain = LabelBeforeApex(derivation.host)

\* C33: after SIGINT or SIGTERM the shutdown broadcast reaches every running
\* listener, no listener accepts a unit of work after the broadcast, and by
\* the time the process has terminated every unit of work that was being
\* handled has finished.
ShutdownIsGraceful ==
    LET sent == supervisor.signalled
                /\ supervisor.pc \in {"returned", "terminated"}
    IN /\ sent =>
            \A l \in Listeners :
                supervisor.listeners[l] \in {"accepting", "dropped"} =>
                    l \in supervisor.delivered
       /\ \A i \in DOMAIN supervisor.units :
            supervisor.units[i].accepted_in # "returned"
       /\ (supervisor.signalled /\ supervisor.pc = "terminated") =>
            \A i \in DOMAIN supervisor.units :
                supervisor.units[i].state = "finished"

\* C34: a sweep that starts above the threshold ends with current_memory at
\* most threshold - max_memory/10 or with an empty request store, and
\* maybe_evict_requests changes nothing at or below the threshold.
SweepReachesTarget ==
    /\ last_sweep.ran =>
          \/ last_sweep.after.current_memory
                <= EvictionThreshold - (max_memory \div 10)
          \/ last_sweep.after.request_store = <<>>
    /\ cache.current_memory <= EvictionThreshold =>
          maybe_evict_requests(cache) = cache

\* A sweep that reached the target and left observations in the store.
SweepStoppedAtTarget ==
    /\ last_sweep.ran
    /\ last_sweep.after.request_store # <<>>
    /\ last_sweep.after.current_memory
          <= EvictionThreshold - (max_memory \div 10)

RECURSIVE SumLens(_)
SumLens(items) ==
    IF items = <<>> THEN 0 ELSE Head(items).len + SumLens(Tail(items))

RECURSIVE SumData(_, _)
SumData(c, keys) ==
    IF keys = {} THEN 0
    ELSE LET k == CHOOSE x \in keys : TRUE
         IN DataLen(c.kv_store[k].data) + SumData(c, keys \ {k})

RECURSIVE SumLists(_)
SumLists(store) ==
    IF store = <<>> THEN 0
    ELSE SumLens(Head(store).items) + SumLists(Tail(store))

\* The bytes an eviction has popped and not yet taken off current_memory.
PendingFreed(e) ==
    IF evictors[e].pc = "subtract" /\ evictors[e].evicted_count > 0
    THEN evictors[e].freed ELSE 0

\* C35: current_memory is the compressed sizes of the KV entries plus the
\* payload lengths of the list entries, plus what evictions have popped and
\* not yet subtracted (nothing in a quiescent state), and each list's
\* total_size is the sum of its entries' lengths. The counter is then never
\* less than what a subtraction takes off it: no subtraction underflows.
MemoryAccountingExact ==
    /\ cache.current_memory
          = SumData(cache, DOMAIN cache.kv_store)
              + SumLists(cache.request_store)
              + PendingFreed("cleanup") + PendingFreed("rpush")
    /\ \A i \in 1..Len(cache.request_store) :
          cache.request_store[i].total_size
              = SumLens(cache.request_store[i].items)

\* An eviction between its pops and its subtraction while another eviction
\* is about to pop, with a tombstone in a list and KV entries present.
EvictionsInterleaved ==
    /\ evictors["cleanup"].pc = "subtract"
    /\ evictors["cleanup"].freed > 0
    /\ evictors["rpush"].pc = "evict"
    /\ \E t \in Tenants : \E i \in 1..Len(Items(cache, t)) :
          Items(cache, t)[i] = Tombstone
    /\ cache.kv_store # <<>>

\* C36: a socket whose bus receiver has lagged and lost events keeps its
\* forwarding task for as long as the connection is open, so that an event
\* published after the lag for a subscribed subdomain still reaches it.
LaggedSocketKeepsForwarding ==
    (ws.open /\ ws.lagged) => ws.alive

\* The dns:TXT:_acme-challenge.* keys present in the store.
ChallengeKeys(c) ==
    {k \in DOMAIN c.kv_store :
        /\ Len(k) = 3 /\ k[1] = <<"dns">> /\ k[2] = <<"TXT">>
        /\ k[3] # <<>> /\ k[3][1] = "_acme-challenge"}

\* C37: once process_all_authorizations has returned, with Ok or with any
\* error, no dns:TXT:_acme-challenge.* key is left in the store.
NoChallengeTxtAfterAttempt ==
    (acme.pc = "idle" /\ acme.result \in {"ok", "error"}) =>
        ChallengeKeys(cache) = {}

\* The recorded usage of every tenant but t is what it was.
UsageOfOthersKept(t) ==
    \A other \in Tenants \ {t} :
        get_subdomain_size(cache', other) = get_subdomain_size(cache, other)

\* C38: a step of PUT /api/v2/dns or PUT /api/v2/files made with a tenant's
\* token leaves the recorded usage of every other tenant as it was.
WritesChargeOwnTenant ==
    [][/\ \A call \in dns_calls :
              (UpdateDnsPurge(call) \/ UpdateDnsStore(call)
                 \/ UpdateDnsManifest(call)) => UsageOfOthersKept(call.sub)
       /\ \A token \in SessionTokens, tree \in FileTrees :
              UpdateFiles(token, tree) => UsageOfOthersKept(verify_jwt(token))
      ]_vars

\* C39: an allocate_tcp_port message never waits on a control loop that has
\* stopped: whatever allocate and release messages came before it, the loop
\* of start_port_allocation_service is still there to process it.
BrokerKeepsServing ==
    (\E i \in 1..Len(broker.inbox) :
        broker.inbox[i].cmd = "allocate_tcp_port") => broker.running

\* The entries of the tenant's tree after the step are those before it,
\* with at most index.html added.
FixturesKept(subdomain) ==
    LET before == stored_files(cache, subdomain)
        after == stored_files(cache', subdomain)
    IN /\ \A i \in 1..Len(before) :
              \E j \in 1..Len(after) : after[j] = before[i]
       /\ \A j \in 1..Len(after) :
              after[j] = "i" \/ \E i \in 1..Len(before) : before[i] = after[j]

\* C40: a read that finds no index.html only adds the default index.html:
\* every other entry of the tenant's tree is still there afterwards, for a
\* capture serving a file and for GET /api/v2/files alike.
ReadsOnlyAddIndex ==
    [][/\ \A task \in captures :
              CaptureServe(task) => FixturesKept(task.sub)
       /\ \A token \in SessionTokens :
              GetFiles(token) => FixturesKept(verify_jwt(token))
      ]_vars
====
